---- MODULE Spec2Model ----
(***************************************************************************)
(* did-jis: TIBET provenance tokens (src/src/tibet.ts) and the bilateral   *)
(* consent manager built on them (src/src/consent.ts).                     *)
(*                                                                         *)
(* The token store is a Map from token id to a token OBJECT; the manager's *)
(* proposal index holds references to the same objects.  Objects live in   *)
(* `heap`, the two maps hold heap references.  Every async function is cut *)
(* at its awaits: the part before the first await runs in the step that    *)
(* makes the call, every resumption is a step of its own, and steps of     *)
(* different calls interleave freely in between.                           *)
(* The synchronous operations are single steps, except getChain, whose     *)
(* loop is cut at its iterations (walk) with nothing else running between  *)
(* them.                                                                   *)
(*                                                                         *)
(* Participant identifiers range over non-empty strings, as createDID and  *)
(* isValidDID of src/src/did.ts produce and accept them; a field the code  *)
(* reads with ?. or || may be undefined (NoStr).  The variables born,      *)
(* responses and last are history: what each stored object was created     *)
(* from, the responses accept and reject have returned, and the step just  *)
(* taken with the store as it was before it.  `exported` is the document  *)
(* the caller holds from the latest export; JSON is modelled by what it    *)
(* does to a token: undefined properties are dropped when it is written    *)
(* and read back as undefined.  `helper` is the environment of the two     *)
(* closures createBilateralConsent returns.  A token object the caller     *)
(* holds without any store holding it is a heap object no map refers to.   *)
(***************************************************************************)
EXTENDS Integers, Sequences, FiniteSets, TLC

(* ------------------------------ bounds --------------------------------- *)
MaxCalls == 3
MaxTime == 1
MaxTokens == 2
DanglingId == 90
MaxChain == 3
MaxImports == 2
MaxListed == 2
MaxWalk == 5
MaxPorted == 4

(* ----------------------- values of the program ------------------------- *)
NoId == 0
NoStr == "<undefined>"
Anonymous == "anonymous"

TIBETState == {"CREATED", "PROPOSED", "ACCEPTED", "REJECTED", "EXPIRED", "REVOKED"}

DIDs == {"bob", "carol"}
Rejectors == {"alice", "bob", "mallory"}
ProposeFrom == {"alice"}
ProposeTo == {"bob", NoStr}
Reasons == {NoStr, "no thanks"}
ConstructorActors == {NoStr, "alice"}
DirectActors == {NoStr, "alice"}
ExpiresIns == {{}, {-1}, {0}, {1}}
ImportIds == {DanglingId + 1, DanglingId + 2}
ListedStates == {"ACCEPTED", "REVOKED"}
ProposalStates == {NoStr, "PROPOSED", "ACCEPTED", "REJECTED"}
NoFilter == [none |-> TRUE]
Filters ==
    {NoFilter, [type |-> "audit"], [state |-> "REVOKED"], [actor |-> "mallory"],
     [type |-> "audit", state |-> "CREATED", actor |-> Anonymous],
     [type |-> "verification", state |-> "ACCEPTED"]}

VARIABLES now, nextId, defaultActor, heap, tokens, proposals, calls, ncalls,
          walk, exported, helper, born, responses, last

vars == <<now, nextId, defaultActor, heap, tokens, proposals, calls, ncalls,
          walk, exported, helper, born, responses, last>>

(* ------------------------ JavaScript truthiness ------------------------ *)
TruthyStr(s) == s # NoStr /\ s # ""

TruthyNum(opt) == opt # {} /\ opt # {0}

TheNum(opt) == CHOOSE n \in opt : TRUE

(* obj?.key on a structured value: undefined when the key is missing *)
Field(obj, key) == IF key \in DOMAIN obj THEN obj[key] ELSE NoStr

(* ------------------------------ TIBET ---------------------------------- *)
ConstructorDefault(actor) == IF TruthyStr(actor) THEN actor ELSE Anonymous

(* faulty variant: the actor given to the constructor is not used *)
ActorOrAnonymous(actor) == IF TruthyStr(actor) THEN actor ELSE Anonymous

ActorOrDefault(actor) == IF TruthyStr(actor) THEN actor ELSE defaultActor

Provenance(params) ==
    [what |-> params.what, with |-> params.with,
     where |-> params.where, why |-> params.why]

TokenData(params, id, t) ==
    [tokenId |-> id, type |-> params.type, actor |-> ActorOrDefault(params.actor),
     provenance |-> Provenance(params), timestamp |-> t,
     parentId |-> params.parentId]

(* faulty variant: the mutable state is signed too *)
CanonicalFieldsWithState(tok) ==
    [tokenId |-> tok.tokenId, type |-> tok.type, actor |-> tok.actor,
     provenance |-> tok.provenance, timestamp |-> tok.timestamp,
     parentId |-> tok.parentId, state |-> tok.state]

CanonicalFields(tok) ==
    [tokenId |-> tok.tokenId, type |-> tok.type, actor |-> tok.actor,
     provenance |-> tok.provenance, timestamp |-> tok.timestamp,
     parentId |-> tok.parentId]

(* JSON.stringify(tokenData): every key of the object in order, except the
   keys whose value is undefined *)
UndefinedKeys(td) ==
    IF "parentId" \in DOMAIN td /\ td.parentId = NoId THEN {"parentId"} ELSE {}

Stringify(td) == [k \in DOMAIN td \ UndefinedKeys(td) |-> td[k]]

generateSignature(data) == <<"sha256", data>>

(* faulty variant: the duration is stored as if it were the instant *)
ExpiresAtNoClock(expiresIn, t) ==
    IF TruthyNum(expiresIn) THEN {TheNum(expiresIn)} ELSE {}

ExpiresAt(expiresIn, t) ==
    IF TruthyNum(expiresIn) THEN {t + TheNum(expiresIn)} ELSE {}

(* faulty variant: a parentId that names no stored token is not recorded *)
NewTokenDropsDangling(td, sig, params, t) ==
    [tokenId |-> td.tokenId, type |-> td.type, actor |-> td.actor,
     provenance |-> td.provenance, timestamp |-> td.timestamp,
     parentId |-> IF td.parentId \in DOMAIN tokens THEN td.parentId ELSE NoId,
     state |-> "CREATED", signature |-> sig,
     expiresAt |-> ExpiresAt(params.expiresIn, t),
     metadata |-> params.metadata]

(* faulty variant: a child token takes the id of its parent *)
NewTokenParentsId(td, sig, params, t) ==
    [tokenId |-> IF td.parentId # NoId THEN td.parentId ELSE td.tokenId,
     type |-> td.type, actor |-> td.actor,
     provenance |-> td.provenance, timestamp |-> td.timestamp,
     parentId |-> td.parentId, state |-> "CREATED", signature |-> sig,
     expiresAt |-> ExpiresAt(params.expiresIn, t),
     metadata |-> params.metadata]

NewToken(td, sig, params, t) ==
    [tokenId |-> td.tokenId, type |-> td.type, actor |-> td.actor,
     provenance |-> td.provenance, timestamp |-> td.timestamp,
     parentId |-> td.parentId, state |-> "CREATED", signature |-> sig,
     expiresAt |-> ExpiresAt(params.expiresIn, t),
     metadata |-> params.metadata]

Has(id) == id \in DOMAIN tokens

Tok(id) == heap[tokens[id]]

StateOf(id) == IF Has(id) THEN Tok(id).state ELSE NoStr

MapSet(m, k, v) == [x \in DOMAIN m \cup {k} |-> IF x = k THEN v ELSE m[x]]

(* faulty variant: writing the state a token already has resets the token *)
SetStateToggle(h, tk, id, newState) ==
    IF id \in DOMAIN tk
    THEN [h EXCEPT ![tk[id]].state = IF @ = newState THEN "CREATED" ELSE newState]
    ELSE h

(* faulty variant: the write of the state restamps the token *)
SetStateRestamps(h, tk, id, newState) ==
    IF id \in DOMAIN tk
    THEN [h EXCEPT ![tk[id]].state = newState, ![tk[id]].timestamp = now]
    ELSE h

SetState(h, tk, id, newState) ==
    IF id \in DOMAIN tk
    THEN [h EXCEPT ![tk[id]].state = newState]
    ELSE h

(* --------------------------- bookkeeping -------------------------------- *)
Pre == [heap |-> heap, tokens |-> tokens, proposals |-> proposals]

NoRes == [none |-> TRUE]

Event(ev, op, cid, arg, res) ==
    [ev |-> ev, op |-> op, cid |-> cid, arg |-> arg, res |-> res, pre |-> Pre]

(* a synchronous step, of which only the outcome is remembered *)
Sync(op, arg, res) ==
    [ev |-> "sync", op |-> op, cid |-> 0, arg |-> arg, res |-> res, pre |-> NoRes]

InFlight == DOMAIN calls

Overlap(cid) == [d \in InFlight |-> [calls[d] EXCEPT !.conc = @ \cup {cid}]]

CanCall == ncalls < MaxCalls

(* ---------------- TIBET.createToken, cut at its await ------------------- *)
BeginCreateToken(op, params, arg) ==
    LET cid == ncalls + 1
        td == TokenData(params, nextId, now)
    IN /\ calls' = MapSet(Overlap(cid), cid,
                     [op |-> op, pc |-> "sign", params |-> params, td |-> td,
                      sig |-> generateSignature(Stringify(td)), arg |-> arg,
                      ref |-> 0, conc |-> InFlight])
       /\ nextId' = nextId + 1
       /\ ncalls' = cid
       /\ last' = Event("call", op, cid, arg, NoRes)
       /\ UNCHANGED <<exported, walk, now, defaultActor, heap, tokens, proposals, born,
                      responses>>

BeginCreate(op, params, arg) == BeginCreateToken(op, params, arg) /\ UNCHANGED helper

DirectParams(actor, parentId, expiresIn) ==
    [type |-> "audit", what |-> [action |-> "note"], with |-> {}, where |-> {},
     why |-> <<"why">>, actor |-> actor, parentId |-> parentId,
     expiresIn |-> expiresIn, metadata |-> {}]

ParentPresent(parentId) == parentId = NoId \/ Has(parentId)

CreateTokenCall(actor, parentId, expiresIn) ==
    /\ CanCall
    /\ BeginCreate("createToken", DirectParams(actor, parentId, expiresIn),
                   [actor |-> actor, parentId |-> parentId, expiresIn |-> expiresIn])

StoreToken(cid) ==
    /\ cid \in InFlight
    /\ calls[cid].pc = "sign"
    /\ LET c == calls[cid]
           ref == Len(heap) + 1
           token == NewToken(c.td, c.sig, c.params, now)
       IN /\ heap' = Append(heap, token)
          /\ tokens' = MapSet(tokens, c.td.tokenId, ref)
          /\ born' = Append(born, [op |-> c.op, params |-> c.params, at |-> now,
                                    parentPresent |-> ParentPresent(c.params.parentId)])
          /\ IF c.op = "createToken"
             THEN /\ calls' = [d \in InFlight \ {cid} |-> calls[d]]
                  /\ last' = Event("returned", c.op, cid, c.arg, [token |-> ref])
             ELSE /\ calls' = [calls EXCEPT ![cid].pc = "stored", ![cid].ref = ref]
                  /\ last' = Event("stored", c.op, cid, c.arg, [token |-> ref])
    /\ UNCHANGED <<helper, exported, walk, now, nextId, defaultActor, proposals, ncalls, responses>>

(* ------------------------- TIBET.updateState ---------------------------- *)
UpdateState(tokenId, newState) ==
    /\ heap' = SetState(heap, tokens, tokenId, newState)
    /\ last' = Sync("updateState", [tokenId |-> tokenId, state |-> newState],
                     [found |-> Has(tokenId)])
    /\ UNCHANGED <<helper, exported, walk, now, nextId, defaultActor, tokens, proposals, calls, ncalls, born, responses>>

(* --------------------------- TIBET.verify ------------------------------- *)
(* A JavaScript number (IEEE-754 double) near a multiple of 0.1 is written  *)
(* <<tenths, e17>>: the double whose shortest decimal form is               *)
(* tenths/10 + e17 * 10^-17, so 0.6000000000000001 is <<6, 10>>.            *)
Zero == <<0, 0>>

WeightSignature == <<4, 0>>

WeightNotExpired == <<3, 0>>

WeightChain == <<2, 0>>

WeightActor == <<1, 0>>

(* what rounding to the nearest double adds to the exact sum *)
RoundingError(a, w) ==
    CASE a = <<4, 0>> /\ w = <<2, 0>> -> 10
      [] a = <<2, 0>> /\ w = <<1, 0>> -> 4
      [] a = <<7, 0>> /\ w = <<2, 0>> -> -10
      [] a = <<7, 0>> /\ w = <<1, 0>> -> -10
      [] OTHER -> 0

DoubleAdd(a, w) == <<a[1] + w[1], a[2] + w[2] + RoundingError(a, w)>>

DoubleLeq(a, b) == a[1] < b[1] \/ (a[1] = b[1] /\ a[2] <= b[2])

AddIf(flag, score, w) == IF flag THEN DoubleAdd(score, w) ELSE score

TrustScore(signatureValid, notExpired, chainIntact, actorTrusted) ==
    AddIf(actorTrusted,
        AddIf(chainIntact,
            AddIf(notExpired,
                AddIf(signatureValid, Zero, WeightSignature),
                WeightNotExpired),
            WeightChain),
        WeightActor)

(* faulty variant: an unknown id is reported as an anonymous, unsigned token *)
NotFoundLenient(tokenId) ==
    [valid |-> FALSE, tokenId |-> tokenId, trustScore |-> <<5, 0>>,
     details |-> [signatureValid |-> FALSE, notExpired |-> TRUE,
                  chainIntact |-> TRUE, actorTrusted |-> FALSE],
     error |-> NoStr]

NotFound(tokenId) ==
    [valid |-> FALSE, tokenId |-> tokenId, trustScore |-> Zero,
     details |-> [signatureValid |-> FALSE, notExpired |-> FALSE,
                  chainIntact |-> FALSE, actorTrusted |-> FALSE],
     error |-> "Token not found"]

(* faulty variant: the comparison with the clock is the wrong way round *)
NotExpiredReversed(tok, t) ==
    IF tok.expiresAt # {} THEN TheNum(tok.expiresAt) < t ELSE TRUE

NotExpired(tok, t) ==
    IF tok.expiresAt # {} THEN TheNum(tok.expiresAt) > t ELSE TRUE

(* faulty variant: the digest is recomputed without the token's actor *)
ExpectedSignatureNoActor(tok) ==
    generateSignature(Stringify([CanonicalFields(tok) EXCEPT !.actor = "someone else"]))

ExpectedSignature(tok) == generateSignature(Stringify(CanonicalFields(tok)))

(* faulty variant: the parent's own parent is looked up as well *)
ChainIntactTwoHops(tok) ==
    IF tok.parentId # NoId
    THEN /\ Has(tok.parentId)
         /\ (Tok(tok.parentId).parentId = NoId \/ Has(Tok(tok.parentId).parentId))
    ELSE TRUE

ChainIntact(tok) == IF tok.parentId # NoId THEN Has(tok.parentId) ELSE TRUE

ActorTrusted(tok) == tok.actor # Anonymous

(* faulty variant: a token in a final state is not valid *)
VerdictStateGated(tok, signatureValid, notExpired, chainIntact) ==
    [valid |-> /\ signatureValid /\ notExpired /\ chainIntact
               /\ tok.state \notin {"REVOKED", "REJECTED", "EXPIRED"},
     tokenId |-> tok.tokenId,
     trustScore |-> TrustScore(signatureValid, notExpired, chainIntact,
                               ActorTrusted(tok)),
     details |-> [signatureValid |-> signatureValid, notExpired |-> notExpired,
                  chainIntact |-> chainIntact, actorTrusted |-> ActorTrusted(tok)],
     error |-> NoStr]

(* faulty variant: an untrusted actor makes the token invalid *)
VerdictActorGated(tok, signatureValid, notExpired, chainIntact) ==
    [valid |-> signatureValid /\ notExpired /\ chainIntact /\ ActorTrusted(tok),
     tokenId |-> tok.tokenId,
     trustScore |-> TrustScore(signatureValid, notExpired, chainIntact,
                               ActorTrusted(tok)),
     details |-> [signatureValid |-> signatureValid, notExpired |-> notExpired,
                  chainIntact |-> chainIntact, actorTrusted |-> ActorTrusted(tok)],
     error |-> NoStr]

Verdict(tok, signatureValid, notExpired, chainIntact) ==
    [valid |-> signatureValid /\ notExpired /\ chainIntact,
     tokenId |-> tok.tokenId,
     trustScore |-> TrustScore(signatureValid, notExpired, chainIntact,
                               ActorTrusted(tok)),
     details |-> [signatureValid |-> signatureValid, notExpired |-> notExpired,
                  chainIntact |-> chainIntact, actorTrusted |-> ActorTrusted(tok)],
     error |-> NoStr]

VerifyCall(tokenId) ==
    /\ CanCall
    /\ ncalls' = ncalls + 1
    /\ LET cid == ncalls + 1
           arg == [tokenId |-> tokenId, at |-> now,
                   ref |-> IF Has(tokenId) THEN tokens[tokenId] ELSE 0]
       IN IF ~Has(tokenId)
          THEN /\ last' = Event("returned", "verify", cid, arg, NotFound(tokenId))
               /\ calls' = Overlap(cid)
          ELSE /\ calls' = MapSet(Overlap(cid), cid,
                     [op |-> "verify", pc |-> "digest", ref |-> tokens[tokenId],
                      notExpired |-> NotExpired(Tok(tokenId), now),
                      expected |-> ExpectedSignature(Tok(tokenId)),
                      arg |-> arg, conc |-> InFlight])
               /\ last' = Event("call", "verify", cid, arg, NoRes)
    /\ UNCHANGED <<helper, exported, walk, now, nextId, defaultActor, heap, tokens, proposals, born, responses>>

(* faulty variant: a token object is judged only if the store holds it *)
VerifyTokenCallInStore(ref) ==
    /\ CanCall
    /\ ncalls' = ncalls + 1
    /\ LET cid == ncalls + 1
           arg == [tokenId |-> NoId, at |-> now, ref |-> ref, token |-> ref]
       IN IF \A id \in DOMAIN tokens : tokens[id] # ref
          THEN /\ last' = Event("returned", "verify", cid, arg,
                                NotFound(heap[ref].tokenId))
               /\ calls' = Overlap(cid)
          ELSE /\ calls' = MapSet(Overlap(cid), cid,
                     [op |-> "verify", pc |-> "digest", ref |-> ref,
                      notExpired |-> NotExpired(heap[ref], now),
                      expected |-> ExpectedSignature(heap[ref]),
                      arg |-> arg, conc |-> InFlight])
               /\ last' = Event("call", "verify", cid, arg, NoRes)
    /\ UNCHANGED <<helper, exported, walk, now, nextId, defaultActor, heap, tokens,
                   proposals, born, responses>>

(* verify(token): tokenOrId is an object, which is judged as it stands *)
VerifyTokenCall(ref) ==
    /\ CanCall
    /\ ncalls' = ncalls + 1
    /\ LET cid == ncalls + 1
           arg == [tokenId |-> NoId, at |-> now, ref |-> ref, token |-> ref]
       IN /\ calls' = MapSet(Overlap(cid), cid,
                [op |-> "verify", pc |-> "digest", ref |-> ref,
                 notExpired |-> NotExpired(heap[ref], now),
                 expected |-> ExpectedSignature(heap[ref]),
                 arg |-> arg, conc |-> InFlight])
          /\ last' = Event("call", "verify", cid, arg, NoRes)
    /\ UNCHANGED <<helper, exported, walk, now, nextId, defaultActor, heap, tokens,
                   proposals, born, responses>>

(* faulty variant: verify moves a token it finds expired to EXPIRED *)
VerifyReturnExpires(cid) ==
    /\ cid \in InFlight
    /\ calls[cid].pc = "digest"
    /\ LET c == calls[cid]
           tok == heap[c.ref]
           res == Verdict(tok, tok.signature = c.expected, c.notExpired,
                          ChainIntact(tok))
       IN /\ last' = Event("returned", "verify", cid, c.arg, res)
          /\ heap' = IF c.notExpired THEN heap
                     ELSE [heap EXCEPT ![c.ref].state = "EXPIRED"]
    /\ calls' = [d \in InFlight \ {cid} |-> calls[d]]
    /\ UNCHANGED <<helper, exported, walk, now, nextId, defaultActor, tokens, proposals, ncalls,
                   born, responses>>

VerifyReturn(cid) ==
    /\ cid \in InFlight
    /\ calls[cid].pc = "digest"
    /\ LET c == calls[cid]
           tok == heap[c.ref]
           res == Verdict(tok, tok.signature = c.expected, c.notExpired,
                          ChainIntact(tok))
       IN last' = Event("returned", "verify", cid, c.arg, res)
    /\ calls' = [d \in InFlight \ {cid} |-> calls[d]]
    /\ UNCHANGED <<helper, exported, walk, now, nextId, defaultActor, heap, tokens, proposals, ncalls, born,
                   responses>>

(* --------------------------- TIBET.getChain ----------------------------- *)
(* getChain is synchronous: the walk up the parent links runs to completion *)
(* before any other operation starts.  It is cut at the iterations of its   *)
(* loop; walk holds the array built so far and the loop variable.           *)
NoWalk == [pc |-> "idle"]

Walking == walk.pc = "loop"

(* faulty variant: a missing id resolves to some token of the store *)
GetAny(id) ==
    IF id \in DOMAIN tokens THEN {tokens[id]}
    ELSE IF DOMAIN tokens = {} THEN {}
    ELSE {tokens[CHOOSE x \in DOMAIN tokens : TRUE]}

(* this.tokens.get(id): the token object stored under id, if any *)
Get(id) == IF id \in DOMAIN tokens THEN {tokens[id]} ELSE {}

(* faulty variant: the walk stops at the token it started from *)
ParentOfNone(ref) == {}

ParentOf(ref) == IF heap[ref].parentId # NoId THEN Get(heap[ref].parentId) ELSE {}

ProvenanceChain(refs) ==
    [length |-> Len(refs), tokens |-> refs, origin |-> refs[1],
     current |-> refs[Len(refs)]]

GetChainCall(tokenId) ==
    /\ ~Walking
    /\ IF Get(tokenId) = {}
       THEN /\ walk' = walk
            /\ last' = Event("returned", "getChain", 0, [tokenId |-> tokenId],
                             [chain |-> {}])
       ELSE /\ walk' = [pc |-> "loop", tokens |-> <<>>, current |-> Get(tokenId),
                        arg |-> [tokenId |-> tokenId]]
            /\ last' = Event("call", "getChain", 0, [tokenId |-> tokenId], NoRes)
    /\ UNCHANGED <<helper, exported, now, nextId, defaultActor, heap, tokens, proposals, calls, ncalls,
                   born, responses>>

(* faulty variant: the walk appends each token instead of putting it in front *)
GetChainStepPushes ==
    /\ Walking
    /\ IF walk.current = {}
       THEN /\ walk' = NoWalk
            /\ last' = Event("returned", "getChain", 0, walk.arg,
                             [chain |-> {ProvenanceChain(walk.tokens)}])
       ELSE /\ Len(walk.tokens) < MaxWalk
            /\ walk' = [walk EXCEPT !.tokens = @ \o <<TheNum(walk.current)>>,
                                    !.current = ParentOf(TheNum(walk.current))]
            /\ last' = last
    /\ UNCHANGED <<helper, exported, now, nextId, defaultActor, heap, tokens, proposals,
                   calls, ncalls, born, responses>>

(* one test of the loop condition: another iteration, or the return *)
GetChainStep ==
    /\ Walking
    /\ IF walk.current = {}
       THEN /\ walk' = NoWalk
            /\ last' = Event("returned", "getChain", 0, walk.arg,
                             [chain |-> {ProvenanceChain(walk.tokens)}])
       ELSE /\ Len(walk.tokens) < MaxWalk
            /\ walk' = [walk EXCEPT !.tokens = <<TheNum(walk.current)>> \o @,
                                    !.current = ParentOf(TheNum(walk.current))]
            /\ last' = last
    /\ UNCHANGED <<helper, exported, now, nextId, defaultActor, heap, tokens, proposals, calls, ncalls,
                   born, responses>>

(* --------------------------- TIBET.getToken ----------------------------- *)
GetToken(tokenId) ==
    /\ last' = Event("returned", "getToken", 0, [tokenId |-> tokenId],
                     [token |-> Get(tokenId)])
    /\ UNCHANGED <<helper, exported, walk, now, nextId, defaultActor, heap, tokens, proposals, calls,
                   ncalls, born, responses>>

(* -------------------------- TIBET.listTokens ---------------------------- *)
(* Array.from(this.tokens.values()): one element for every entry of the    *)
(* Map.  The order of the array is not part of the model; the entries are  *)
(* taken in the order of their keys.                                       *)
RECURSIVE Values(_)
Values(ids) ==
    IF ids = {} THEN <<>>
    ELSE LET id == CHOOSE x \in ids : \A y \in ids : x <= y
         IN <<tokens[id]>> \o Values(ids \ {id})

(* faulty variant: a filter field that is given selects nothing out *)
FilterByNothing(refs, filter, key) == refs

(* if (filter?.key) tokens = tokens.filter((t) => t.key === filter.key) *)
FilterBy(refs, filter, key) ==
    IF TruthyStr(Field(filter, key))
    THEN SelectSeq(refs, LAMBDA ref : heap[ref][key] = filter[key])
    ELSE refs

ListTokens(filter) ==
    /\ last' = Event("returned", "listTokens", 0, [filter |-> filter],
                     [tokens |-> FilterBy(FilterBy(FilterBy(Values(DOMAIN tokens),
                                     filter, "type"), filter, "state"), filter, "actor")])
    /\ UNCHANGED <<helper, exported, walk, now, nextId, defaultActor, heap, tokens, proposals, calls,
                   ncalls, born, responses>>

(* ------------------------- JSON, as far as it matters ------------------- *)
TokenKeys ==
    {"tokenId", "type", "actor", "provenance", "timestamp", "parentId", "state",
     "signature", "expiresAt", "metadata"}

(* the properties of TIBETToken declared with `?` *)
OptionalKeys == {"parentId", "expiresAt", "metadata"}

(* what reading a property gives when the object does not have it *)
Undefined(key) == IF key = "parentId" THEN NoId ELSE {}

(* JSON.stringify leaves out the properties whose value is undefined *)
ToJson(tok) ==
    [k \in {x \in DOMAIN tok : x \in OptionalKeys => tok[x] # Undefined(x)} |->
        tok[k]]

(* the object JSON.parse builds, read through the fields of TIBETToken *)
FromJson(json) ==
    [k \in TokenKeys |-> IF k \in DOMAIN json THEN json[k] ELSE Undefined(k)]

RECURSIVE Sorted(_)
Sorted(ids) ==
    IF ids = {} THEN <<>>
    ELSE LET id == CHOOSE x \in ids : \A y \in ids : x <= y
         IN <<id>> \o Sorted(ids \ {id})

(* ---------------------------- TIBET.export ------------------------------ *)
(* JSON.stringify(Array.from(this.tokens.entries())); `of` remembers which
   objects the document was made from *)
Export ==
    /\ exported' = {[json |-> [id \in DOMAIN tokens |-> ToJson(Tok(id))],
                     of |-> tokens]}
    /\ last' = Event("returned", "export", 0, NoRes, NoRes)
    /\ UNCHANGED <<helper, walk, now, nextId, defaultActor, heap, tokens, proposals, calls,
                   ncalls, born, responses>>

(* new BilateralConsentManager(actor), which makes its new TIBET(actor): the
   caller goes on with an empty store and an empty proposal index *)
Construct(actor) ==
    /\ InFlight = {}
    /\ tokens' = <<>>
    /\ proposals' = <<>>
    /\ defaultActor' = ConstructorDefault(actor)
    /\ last' = Sync("constructor", NoRes, NoRes)
    /\ UNCHANGED <<helper, exported, walk, now, nextId, heap, calls, ncalls, born, responses>>

(* ---------------------------- TIBET.import ------------------------------ *)
(* faulty variant: an id the store already has keeps its token *)
OverriddenKeepOld(tk, refs) ==
    [id \in DOMAIN tk \cup DOMAIN refs |->
        IF id \in DOMAIN tk THEN tk[id] ELSE refs[id]]

(* this.tokens.set(id, token) for every entry *)
Overridden(tk, refs) ==
    [id \in DOMAIN tk \cup DOMAIN refs |->
        IF id \in DOMAIN refs THEN refs[id] ELSE tk[id]]

(* import of a document that export returned *)
ImportDoc(json) ==
    LET ids == Sorted(DOMAIN json)
        refs == [id \in DOMAIN json |->
                   Len(heap) + CHOOSE i \in 1..Len(ids) : ids[i] = id]
    IN /\ heap' = heap \o [i \in 1..Len(ids) |-> FromJson(json[ids[i]])]
       /\ tokens' = Overridden(tokens, refs)
       /\ born' = born \o [i \in 1..Len(ids) |->
                             [op |-> "import", params |-> NoRes, at |-> now,
                              parentPresent |->
                                 ParentPresent(FromJson(json[ids[i]]).parentId)]]
       /\ last' = Event("returned", "import", 0,
                        [ids |-> DOMAIN json, from |-> "export"], NoRes)
       /\ UNCHANGED <<helper, exported, walk, now, nextId, defaultActor, proposals, calls,
                      ncalls, responses>>

(* a token object as JSON.parse builds it from one entry of the document *)
ImportedToken(tokenId, type, actor, parentId, expiresAt, signed) ==
    LET fields == [tokenId |-> tokenId, type |-> type, actor |-> actor,
                   provenance |-> [what |-> [action |-> "note"], with |-> {},
                                   where |-> {}, why |-> <<"why">>],
                   timestamp |-> 0, parentId |-> parentId]
    IN [tokenId |-> tokenId, type |-> type, actor |-> actor,
        provenance |-> fields.provenance, timestamp |-> 0, parentId |-> parentId,
        state |-> "CREATED",
        signature |-> IF signed THEN generateSignature(Stringify(fields))
                      ELSE generateSignature(
                               Stringify([fields EXCEPT !.actor = "someone else"])),
        expiresAt |-> expiresAt, metadata |-> {}]

(* import of a document with the one entry [id, token] *)
Import(id, token) ==
    /\ heap' = Append(heap, token)
    /\ tokens' = MapSet(tokens, id, Len(heap) + 1)
    /\ born' = Append(born, [op |-> "import", params |-> NoRes, at |-> now,
                              parentPresent |-> ParentPresent(token.parentId)])
    /\ last' = Event("returned", "import", 0, [ids |-> {id}, from |-> "elsewhere"],
                     NoRes)
    /\ UNCHANGED <<helper, exported, walk, now, nextId, defaultActor, proposals, calls, ncalls, responses>>

(* a token object the caller has built or parsed and not put in any store *)
Unstored(token) ==
    /\ heap' = Append(heap, token)
    /\ born' = Append(born, [op |-> "literal", params |-> NoRes, at |-> now,
                              parentPresent |-> ParentPresent(token.parentId)])
    /\ last' = Sync("literal", NoRes, NoRes)
    /\ UNCHANGED <<helper, exported, walk, now, nextId, defaultActor, tokens, proposals,
                   calls, ncalls, responses>>

(* ---------------------- BilateralConsentManager ------------------------- *)
(* faulty variant: propose does not pass the proposer as actor *)
ProposeParamsNoActor(consent) ==
    [type |-> "bilateral_consent",
     what |-> [action |-> consent.action, from |-> consent.from, to |-> consent.to],
     with |-> {<<consent.from, consent.to>>}, where |-> consent.context,
     why |-> <<consent.purpose>>, actor |-> NoStr, parentId |-> NoId,
     expiresIn |-> consent.expiresIn,
     metadata |-> {[consentType |-> "bilateral", proposedAt |-> now]}]

ProposeParams(consent) ==
    [type |-> "bilateral_consent",
     what |-> [action |-> consent.action, from |-> consent.from, to |-> consent.to],
     with |-> {<<consent.from, consent.to>>}, where |-> consent.context,
     why |-> <<consent.purpose>>, actor |-> consent.from, parentId |-> NoId,
     expiresIn |-> consent.expiresIn,
     metadata |-> {[consentType |-> "bilateral", proposedAt |-> now]}]

ProposeCall(from, to, expiresIn) ==
    /\ CanCall
    /\ LET consent == [from |-> from, to |-> to, action |-> "share-x",
                       purpose |-> "reason", context |-> {}, expiresIn |-> expiresIn]
       IN BeginCreate("propose", ProposeParams(consent), consent)

ProposeReturn(cid) ==
    /\ cid \in InFlight
    /\ calls[cid].op = "propose"
    /\ calls[cid].pc = "stored"
    /\ LET c == calls[cid]
           res == [token |-> c.ref]
       IN /\ heap' = SetState(heap, tokens, c.td.tokenId, "PROPOSED")
          /\ proposals' = MapSet(proposals, c.td.tokenId, c.ref)
          /\ last' = Event("returned", "propose", cid, c.arg, res)
    /\ calls' = [d \in InFlight \ {cid} |-> calls[d]]
    /\ UNCHANGED <<helper, exported, walk, now, nextId, defaultActor, tokens, ncalls, born, responses>>

(* faulty variant: the id is looked up in the token store, not in the proposal index *)
LookupInStore(proposalId) ==
    IF proposalId \in DOMAIN tokens THEN {tokens[proposalId]} ELSE {}

(* this.proposals.get(proposalId): the proposal's token object, if any *)
Lookup(proposalId) ==
    IF proposalId \in DOMAIN proposals THEN {proposals[proposalId]} ELSE {}

OriginalToken(found) == heap[TheNum(found)]

(* faulty variant: the recipient is checked only when the proposal names none *)
RecipientMismatchInverted(expectedTo, acceptorDid) ==
    ~TruthyStr(expectedTo) /\ expectedTo # acceptorDid

(* faulty variant: the recipient check is skipped *)
RecipientMismatchIgnored(expectedTo, acceptorDid) == FALSE

RecipientMismatch(expectedTo, acceptorDid) ==
    TruthyStr(expectedTo) /\ expectedTo # acceptorDid

AcceptParams(provenance, proposalId, acceptorDid) ==
    [type |-> "bilateral_consent",
     what |-> [action |-> "consent_accepted",
               originalAction |-> Field(provenance.what, "action")],
     with |-> provenance.with, where |-> provenance.where,
     why |-> <<"Accepted: ">> \o provenance.why, actor |-> acceptorDid,
     parentId |-> proposalId, expiresIn |-> {},
     metadata |-> {[responseType |-> "acceptance", acceptedAt |-> now]}]

Throw(op, arg, error) ==
    /\ last' = Event("threw", op, ncalls + 1, arg, [error |-> error])
    /\ ncalls' = ncalls + 1
    /\ calls' = Overlap(ncalls + 1)
    /\ UNCHANGED <<helper, exported, walk, now, nextId, defaultActor, heap, tokens, proposals, born, responses>>

(* faulty variant: accept refuses a proposal whose expiry has passed *)
AcceptCallChecksExpiry(proposalId, acceptorDid) ==
    /\ CanCall
    /\ LET arg == [proposalId |-> proposalId, did |-> acceptorDid, reason |-> NoStr,
                   was |-> StateOf(proposalId)]
           found == Lookup(proposalId)
       IN IF found = {}
          THEN Throw("accept", arg, "Proposal not found")
          ELSE IF RecipientMismatch(
                      Field(OriginalToken(found).provenance.what, "to"), acceptorDid)
          THEN Throw("accept", arg, "Acceptor does not match intended recipient")
          ELSE IF ~NotExpired(OriginalToken(found), now)
          THEN Throw("accept", arg, "Proposal expired")
          ELSE BeginCreate("accept",
                   AcceptParams(OriginalToken(found).provenance, proposalId,
                                acceptorDid), arg)

AcceptCall(proposalId, acceptorDid) ==
    /\ CanCall
    /\ LET arg == [proposalId |-> proposalId, did |-> acceptorDid, reason |-> NoStr,
                   was |-> StateOf(proposalId)]
           found == Lookup(proposalId)
       IN IF found = {}
          THEN Throw("accept", arg, "Proposal not found")
          ELSE IF RecipientMismatch(
                      Field(OriginalToken(found).provenance.what, "to"), acceptorDid)
          THEN Throw("accept", arg, "Acceptor does not match intended recipient")
          ELSE BeginCreate("accept",
                   AcceptParams(OriginalToken(found).provenance, proposalId,
                                acceptorDid), arg)

RejectWhy(provenance, reason) ==
    IF TruthyStr(reason) THEN <<reason>> ELSE <<"Rejected: ">> \o provenance.why

RejectParams(provenance, proposalId, rejectorDid, reason) ==
    [type |-> "bilateral_consent",
     what |-> [action |-> "consent_rejected",
               originalAction |-> Field(provenance.what, "action")],
     with |-> provenance.with, where |-> provenance.where,
     why |-> RejectWhy(provenance, reason), actor |-> rejectorDid,
     parentId |-> proposalId, expiresIn |-> {},
     metadata |-> {[responseType |-> "rejection", rejectedAt |-> now,
                    reason |-> reason]}]

(* faulty variant: reject checks the recipient as accept does *)
RejectCallChecksRecipient(proposalId, rejectorDid, reason) ==
    /\ CanCall
    /\ LET arg == [proposalId |-> proposalId, did |-> rejectorDid, reason |-> reason,
                   was |-> StateOf(proposalId)]
           found == Lookup(proposalId)
       IN IF found = {}
          THEN Throw("reject", arg, "Proposal not found")
          ELSE IF RecipientMismatch(
                      Field(OriginalToken(found).provenance.what, "to"), rejectorDid)
          THEN Throw("reject", arg, "Rejector does not match intended recipient")
          ELSE BeginCreate("reject",
                   RejectParams(OriginalToken(found).provenance, proposalId,
                                rejectorDid, reason), arg)

RejectCall(proposalId, rejectorDid, reason) ==
    /\ CanCall
    /\ LET arg == [proposalId |-> proposalId, did |-> rejectorDid, reason |-> reason,
                   was |-> StateOf(proposalId)]
           found == Lookup(proposalId)
       IN IF found = {}
          THEN Throw("reject", arg, "Proposal not found")
          ELSE BeginCreate("reject",
                   RejectParams(OriginalToken(found).provenance, proposalId,
                                rejectorDid, reason), arg)

(* faulty variant: the response token is written, the proposal is not *)
RespondTokenFirst(h, tk, tokenId, proposalId, state) ==
    IF h[tk[proposalId]].state = "PROPOSED"
    THEN SetState(h, tk, tokenId, state)
    ELSE SetState(SetState(h, tk, tokenId, state), tk, proposalId, state)

(* faulty variant: reject writes the state accept writes *)
ResponseStateAccepted(op) == "ACCEPTED"

(* faulty variant: a rejected proposal is revoked *)
ResponseStateRevoked(op) == IF op = "accept" THEN "ACCEPTED" ELSE "REVOKED"

ResponseState(op) == IF op = "accept" THEN "ACCEPTED" ELSE "REJECTED"

(* faulty variant: the response token is updated, the proposal is forgotten *)
RespondOnlyToken(h, tk, tokenId, proposalId, state) == SetState(h, tk, tokenId, state)

Respond(h, tk, tokenId, proposalId, state) ==
    SetState(SetState(h, tk, tokenId, state), tk, proposalId, state)

Response(c) ==
    [proposalId |-> c.arg.proposalId, accepted |-> c.op = "accept",
     token |-> c.ref, reason |-> c.arg.reason]

(* the resumption of accept or reject after createToken *)
ResponseReturn(cid) ==
    /\ cid \in InFlight
    /\ calls[cid].op \in {"accept", "reject"}
    /\ calls[cid].pc = "stored"
    /\ LET c == calls[cid]
       IN /\ heap' = Respond(heap, tokens, c.td.tokenId, c.arg.proposalId,
                             ResponseState(c.op))
          /\ responses' = responses \cup {[cid |-> cid, conc |-> c.conc,
                                            res |-> Response(c)]}
          /\ last' = Event("returned", c.op, cid, c.arg, Response(c))
    /\ calls' = [d \in InFlight \ {cid} |-> calls[d]]
    /\ UNCHANGED <<helper, exported, walk, now, nextId, defaultActor, tokens, proposals, ncalls, born>>

(* ----------------------- createBilateralConsent ------------------------ *)
(* `helper` is what the returned closures have captured: the consent object
   and the proposal; the manager they call is the one manager of the model.
   The function makes its manager with consent.from and awaits propose. *)
CreateBilateralConsentCall(consent) ==
    /\ helper = {}
    /\ nextId = 1
    /\ ncalls = 0
    /\ defaultActor = ConstructorDefault(consent.from)
    /\ BeginCreateToken("propose", ProposeParams(consent), consent)
    /\ helper' = {[pc |-> "await", consent |-> consent, proposal |-> 0]}

(* the resumption after propose: the closures are returned *)
CreateBilateralConsentReturn ==
    /\ helper # {}
    /\ TheNum(helper).pc = "await"
    /\ last.op = "propose" /\ last.ev = "returned"
    /\ helper' = {[TheNum(helper) EXCEPT !.pc = "returned",
                                         !.proposal = last.res.token]}
    /\ last' = Event("returned", "createBilateralConsent", 0, TheNum(helper).consent,
                     [proposal |-> last.res.token])
    /\ UNCHANGED <<exported, walk, now, nextId, defaultActor, heap, tokens, proposals,
                   calls, ncalls, born, responses>>

Closures == {h \in helper : h.pc = "returned"}

(* faulty variant: the accept closure answers in the name of the proposer *)
HelperAcceptAsProposer(reason) ==
    \E h \in Closures : AcceptCall(heap[h.proposal].tokenId, h.consent.from)

(* accept: (reason?) => manager.accept(proposal.token.tokenId, consent.to) *)
HelperAccept(reason) ==
    \E h \in Closures : AcceptCall(heap[h.proposal].tokenId, h.consent.to)

(* reject: (reason?) => manager.reject(proposal.token.tokenId, consent.to, reason) *)
HelperReject(reason) ==
    \E h \in Closures : RejectCall(heap[h.proposal].tokenId, h.consent.to, reason)

(* --------------- getConsentChain, verifyConsent, listProposals ---------- *)
(* return this.tibet.getChain(proposalId) *)
GetConsentChain(proposalId) == GetChainCall(proposalId)

(* return this.tibet.verify(tokenId) *)
VerifyConsent(tokenId) == VerifyCall(tokenId)

(* Array.from(this.proposals.values()): the token of every proposal of the
   index, taken in the order of the keys *)
RECURSIVE ProposalValues(_)
ProposalValues(ids) ==
    IF ids = {} THEN <<>>
    ELSE LET id == CHOOSE x \in ids : \A y \in ids : x <= y
         IN <<proposals[id]>> \o ProposalValues(ids \ {id})

(* faulty variant: the state argument is ignored *)
InStateAny(refs, state) == refs

(* if (state) proposals = proposals.filter((p) => p.token.state === state) *)
InState(refs, state) ==
    IF TruthyStr(state)
    THEN SelectSeq(refs, LAMBDA ref : heap[ref].state = state)
    ELSE refs

ListProposals(state) ==
    /\ last' = Event("returned", "listProposals", 0, [state |-> state],
                     [proposals |-> InState(ProposalValues(DOMAIN proposals), state)])
    /\ UNCHANGED <<helper, exported, walk, now, nextId, defaultActor, heap, tokens, proposals, calls,
                   ncalls, born, responses>>

(* ------------------------------ the clock ------------------------------- *)
Tick ==
    /\ now < MaxTime
    /\ now' = now + 1
    /\ last' = Sync("clock", NoRes, NoRes)
    /\ UNCHANGED <<helper, exported, walk, nextId, defaultActor, heap, tokens, proposals, calls, ncalls, born, responses>>

Init ==
    /\ now = 0
    /\ nextId = 1
    /\ defaultActor \in {ConstructorDefault(a) : a \in ConstructorActors}
    /\ heap = <<>>
    /\ tokens = <<>>
    /\ proposals = <<>>
    /\ calls = <<>>
    /\ ncalls = 0
    /\ walk = NoWalk
    /\ exported = {}
    /\ helper = {}
    /\ born = <<>>
    /\ responses = {}
    /\ last = [ev |-> "init", op |-> "constructor", cid |-> 0, arg |-> NoRes,
               res |-> NoRes,
               pre |-> [heap |-> <<>>, tokens |-> <<>>, proposals |-> <<>>]]

(* --------------------------- specifications ----------------------------- *)
Ids == DOMAIN tokens \cup {DanglingId}

(* createToken and verify against the clock *)
NextVerify ==
    \/ Tick
    \/ \E a \in DirectActors, p \in Ids \cup {NoId}, e \in ExpiresIns :
          nextId <= MaxTokens /\ CreateTokenCall(a, p, e)
    \/ \E c \in InFlight : StoreToken(c)
    \/ \E id \in Ids : VerifyCall(id)
    \/ \E c \in InFlight : VerifyReturn(c)

(* state changes, direct and through the manager, against verify *)
NextState ==
    \/ nextId <= MaxTokens /\ CreateTokenCall(NoStr, NoId, {})
    \/ nextId <= MaxTokens /\ ProposeCall("alice", "bob", {1})
    \/ \E c \in InFlight : StoreToken(c)
    \/ \E c \in InFlight : ProposeReturn(c)
    \/ \E p \in DOMAIN proposals : nextId <= MaxTokens /\ AcceptCall(p, "bob")
    \/ \E p \in DOMAIN proposals : nextId <= MaxTokens /\ RejectCall(p, "bob", NoStr)
    \/ \E c \in InFlight : ResponseReturn(c)
    \/ \E id \in Ids, st \in TIBETState : UpdateState(id, st)
    \/ \E id \in DOMAIN tokens : VerifyCall(id)
    \/ \E c \in InFlight : VerifyReturn(c)

(* the manager's own operations, and a token minted directly on its store *)
NextConsent ==
    \/ CreateTokenCall(NoStr, NoId, {})
    \/ \E f \in ProposeFrom, t \in ProposeTo : ProposeCall(f, t, {})
    \/ \E c \in InFlight : StoreToken(c)
    \/ \E c \in InFlight : ProposeReturn(c)
    \/ \E p \in Ids, d \in DIDs : AcceptCall(p, d)
    \/ \E p \in Ids, d \in DIDs, r \in Reasons : RejectCall(p, d, r)
    \/ \E c \in InFlight : ResponseReturn(c)

(* objects made so far: createToken calls begun and tokens imported *)
Objects == (nextId - 1) + Cardinality({i \in 1..Len(born) : born[i].op = "import"})

ChainIds == DOMAIN tokens \cup ImportIds \cup {DanglingId}

(* chains of tokens, created one after the other or imported, and the
   synchronous readers; no operation starts while a walk is in progress *)
NextChain ==
    \/ /\ ~Walking /\ Objects < MaxChain /\ InFlight = {}
       /\ \E p \in DOMAIN tokens \cup {NoId, DanglingId} : CreateTokenCall(NoStr, p, {})
    \/ ~Walking /\ \E c \in InFlight : StoreToken(c)
    \/ /\ ~Walking /\ Objects < MaxChain
       /\ \E k \in ImportIds, p \in ImportIds \cup {NoId} :
             Import(k, ImportedToken(k, "verification", "mallory", p, {}, TRUE))
    \/ \E id \in ChainIds : GetChainCall(id)
    \/ GetChainStep
    \/ ~Walking /\ \E id \in ChainIds : GetToken(id)
    \/ ~Walking /\ \E id \in ChainIds : UpdateState(id, "REVOKED")

(* the store listed under filters *)
NextList ==
    \/ /\ Objects < MaxListed
       /\ \E a \in DirectActors : CreateTokenCall(a, NoId, {})
    \/ \E c \in InFlight : StoreToken(c)
    \/ /\ Objects < MaxListed
       /\ \E k \in ImportIds :
             Import(k, ImportedToken(k, "verification", "mallory", NoId, {}, TRUE))
    \/ \E id \in DOMAIN tokens, st \in ListedStates : UpdateState(id, st)
    \/ \E f \in Filters : ListTokens(f)

(* verify against tokens loaded through import *)
NextImport ==
    \/ /\ Len(heap) < MaxImports
       /\ \E k \in ImportIds, a \in {Anonymous, "mallory"}, p \in {NoId, DanglingId},
             e \in {{}, {0}}, sg \in BOOLEAN :
             Import(k, ImportedToken(k, "verification", a, p, e, sg))
    \/ \E id \in ChainIds : VerifyCall(id)
    \/ \E c \in InFlight : VerifyReturn(c)

(* the manager used through its own operations only *)
NextManager ==
    \/ /\ ~Walking /\ nextId <= MaxChain
       /\ \E t \in ProposeTo : ProposeCall("alice", t, {})
    \/ ~Walking /\ \E c \in InFlight : StoreToken(c)
    \/ ~Walking /\ \E c \in InFlight : ProposeReturn(c)
    \/ /\ ~Walking /\ nextId <= MaxChain
       /\ \E p \in DOMAIN proposals : AcceptCall(p, "bob")
    \/ /\ ~Walking /\ nextId <= MaxChain
       /\ \E p \in DOMAIN proposals : RejectCall(p, "bob", NoStr)
    \/ ~Walking /\ \E c \in InFlight : ResponseReturn(c)
    \/ \E id \in Ids : GetConsentChain(id)
    \/ GetChainStep
    \/ ~Walking /\ \E st \in ProposalStates : ListProposals(st)

(* a store exported, changed or begun anew, and loaded again *)
NextPort ==
    \/ /\ Objects < MaxPorted /\ InFlight = {}
       /\ \E p \in DOMAIN tokens \cup {NoId}, e \in {{}, {-1}} :
             CreateTokenCall(NoStr, p, e)
    \/ \E c \in InFlight : StoreToken(c)
    \/ /\ InFlight = {}
       /\ \E id \in DOMAIN tokens : StateOf(id) # "REVOKED" /\ UpdateState(id, "REVOKED")
    \/ tokens # <<>> /\ InFlight = {} /\ Export
    \/ InFlight = {} /\ \E id \in DOMAIN tokens : VerifyCall(id)
    \/ \E c \in InFlight : VerifyReturn(c)
    \/ exported # {} /\ tokens # <<>> /\ Construct(NoStr)
    \/ /\ exported # {}
       /\ Objects + Cardinality(DOMAIN TheNum(exported).json) <= MaxPorted
       /\ ImportDoc(TheNum(exported).json)

(* every operation that binds an id in the store *)
NextBind ==
    \/ /\ Objects < MaxTokens + 1 /\ InFlight = {}
       /\ \E p \in DOMAIN tokens \cup {NoId} : CreateTokenCall(NoStr, p, {})
    \/ \E c \in InFlight : StoreToken(c)
    \/ Objects < MaxTokens + 1 /\ InFlight = {} /\ ProposeCall("alice", "bob", {})
    \/ \E c \in InFlight : ProposeReturn(c)
    \/ /\ Objects < MaxTokens + 1 /\ InFlight = {}
       /\ \E id \in DOMAIN proposals : AcceptCall(id, "bob")
    \/ /\ Objects < MaxTokens + 1 /\ InFlight = {}
       /\ \E id \in DOMAIN proposals : RejectCall(id, "bob", NoStr)
    \/ \E c \in InFlight : ResponseReturn(c)
    \/ \E id \in DOMAIN tokens : StateOf(id) # "REVOKED" /\ UpdateState(id, "REVOKED")
    \/ /\ Objects < MaxTokens + 1
       /\ \E k \in DOMAIN tokens \cup {DanglingId + 1} :
             Import(k, ImportedToken(DanglingId, "verification", "mallory", NoId,
                                     {}, TRUE))

(* proposals rejected by the recipient, by the proposer and by a stranger,
   with accepts of the recipient in between *)
NextReject ==
    \/ nextId <= MaxChain /\ \E t \in ProposeTo : ProposeCall("alice", t, {})
    \/ \E c \in InFlight : StoreToken(c)
    \/ \E c \in InFlight : ProposeReturn(c)
    \/ nextId <= MaxChain /\ \E p \in DOMAIN proposals : AcceptCall(p, "bob")
    \/ /\ nextId <= MaxChain
       /\ \E p \in DOMAIN proposals, d \in Rejectors : RejectCall(p, d, NoStr)
    \/ \E c \in InFlight : ResponseReturn(c)

(* one use of createBilateralConsent and of the closures it returns *)
NextHelper ==
    \/ \E t \in ProposeTo :
          CreateBilateralConsentCall(
             [from |-> "alice", to |-> t, action |-> "share-x", purpose |-> "reason",
              context |-> {}, expiresIn |-> {}])
    \/ \E c \in InFlight : StoreToken(c)
    \/ \E c \in InFlight : ProposeReturn(c)
    \/ CreateBilateralConsentReturn
    \/ nextId <= MaxChain + 1 /\ \E r \in Reasons : HelperAccept(r)
    \/ nextId <= MaxChain + 1 /\ \E r \in Reasons : HelperReject(r)
    \/ \E c \in InFlight : ResponseReturn(c)

(* a proposal answered, then the store read and written behind the manager:
   tokens imported under new ids and under the ids of stored tokens *)
NextLineage ==
    \/ ~Walking /\ nextId = 1 /\ ProposeCall("alice", "bob", {})
    \/ ~Walking /\ \E c \in InFlight : StoreToken(c)
    \/ ~Walking /\ \E c \in InFlight : ProposeReturn(c)
    \/ /\ ~Walking /\ nextId <= MaxTokens /\ InFlight = {}
       /\ \E p \in DOMAIN proposals : AcceptCall(p, "bob")
    \/ /\ ~Walking /\ nextId <= MaxTokens /\ InFlight = {}
       /\ \E p \in DOMAIN proposals : RejectCall(p, "bob", NoStr)
    \/ ~Walking /\ \E c \in InFlight : ResponseReturn(c)
    \/ /\ ~Walking /\ Objects < MaxChain /\ InFlight = {}
       /\ \E k \in DOMAIN tokens \cup {DanglingId + 1}, p \in {NoId, DanglingId} :
             Import(k, ImportedToken(k, "verification", "mallory", p, {}, TRUE))
    \/ /\ ~Walking /\ InFlight = {}
       /\ \E id \in DOMAIN tokens : StateOf(id) # "REVOKED" /\ UpdateState(id, "REVOKED")
    \/ ~Walking /\ InFlight = {} /\ \E id \in DOMAIN tokens : VerifyCall(id)
    \/ ~Walking /\ \E c \in InFlight : VerifyReturn(c)
    \/ InFlight = {} /\ \E id \in DOMAIN tokens : GetChainCall(id)
    \/ GetChainStep

(* the manager, and its store used directly through getTibet(): updateState,
   export, and import of what was exported *)
NextIndex ==
    \/ nextId <= MaxTokens /\ InFlight = {} /\ ProposeCall("alice", "bob", {})
    \/ \E c \in InFlight : StoreToken(c)
    \/ \E c \in InFlight : ProposeReturn(c)
    \/ /\ nextId <= MaxTokens /\ InFlight = {}
       /\ \E p \in DOMAIN proposals : AcceptCall(p, "bob")
    \/ /\ nextId <= MaxTokens /\ InFlight = {}
       /\ \E p \in DOMAIN proposals : RejectCall(p, "bob", NoStr)
    \/ \E c \in InFlight : ResponseReturn(c)
    \/ /\ InFlight = {}
       /\ \E id \in DOMAIN tokens : StateOf(id) # "REVOKED" /\ UpdateState(id, "REVOKED")
    \/ tokens # <<>> /\ InFlight = {} /\ Export
    \/ /\ exported # {} /\ InFlight = {}
       /\ Objects + Cardinality(DOMAIN TheNum(exported).json) <= MaxPorted
       /\ ImportDoc(TheNum(exported).json)
    \/ InFlight = {} /\ \E st \in ProposalStates : ListProposals(st)
    \/ /\ InFlight = {}
       /\ \E st \in ProposalStates \ {NoStr} : ListTokens([state |-> st])

(* the manager's calls running into each other, and the listings called in
   between their steps *)
NextAtomic ==
    \/ nextId <= MaxChain /\ ProposeCall("alice", "bob", {})
    \/ \E c \in InFlight : StoreToken(c)
    \/ \E c \in InFlight : ProposeReturn(c)
    \/ nextId <= MaxChain /\ \E p \in DOMAIN proposals : AcceptCall(p, "bob")
    \/ nextId <= MaxChain /\ \E p \in DOMAIN proposals : RejectCall(p, "bob", NoStr)
    \/ \E c \in InFlight : ResponseReturn(c)
    \/ tokens # <<>> /\ ListTokens(NoFilter)
    \/ proposals # <<>> /\ ListProposals(NoStr)

(* verify given ids and given token objects: objects of this store, of a store
   left behind, and of no store *)
NextObject ==
    \/ /\ Len(heap) < MaxChain /\ InFlight = {}
       /\ \E p \in DOMAIN tokens \cup {NoId}, e \in {{}, {-1}} :
             CreateTokenCall("alice", p, e)
    \/ \E c \in InFlight : StoreToken(c)
    \/ tokens # <<>> /\ Construct(NoStr)
    \/ /\ Len(heap) < MaxChain
       /\ \E p \in DOMAIN tokens \cup {NoId}, sg \in BOOLEAN :
             Unstored(ImportedToken(DanglingId, "verification", "mallory", p, {}, sg))
    \/ \E id \in DOMAIN tokens : VerifyCall(id)
    \/ \E ref \in 1..Len(heap) : VerifyTokenCall(ref)
    \/ \E c \in InFlight : VerifyReturn(c)

(* the operations that meet tokens already in the store *)
NextFrame ==
    \/ ~Walking /\ Tick
    \/ /\ ~Walking /\ nextId <= MaxTokens /\ InFlight = {}
       /\ \E e \in {{}, {1}} : ProposeCall("alice", "bob", e)
    \/ ~Walking /\ \E c \in InFlight : StoreToken(c)
    \/ ~Walking /\ \E c \in InFlight : ProposeReturn(c)
    \/ /\ ~Walking /\ nextId <= MaxTokens
       /\ \E id \in DOMAIN proposals : AcceptCall(id, "bob")
    \/ /\ ~Walking /\ nextId <= MaxTokens
       /\ \E id \in DOMAIN proposals : RejectCall(id, "bob", NoStr)
    \/ ~Walking /\ \E c \in InFlight : ResponseReturn(c)
    \/ /\ ~Walking /\ InFlight = {}
       /\ \E id \in DOMAIN tokens, st \in {"REVOKED", "EXPIRED"} :
             StateOf(id) # st /\ UpdateState(id, st)
    \/ ~Walking /\ InFlight = {} /\ \E id \in DOMAIN tokens : VerifyConsent(id)
    \/ ~Walking /\ \E c \in InFlight : VerifyReturn(c)
    \/ InFlight = {} /\ \E id \in DOMAIN tokens : GetChainCall(id)
    \/ GetChainStep
    \/ ~Walking /\ InFlight = {} /\ tokens # <<>> /\ ListTokens(NoFilter)
    \/ ~Walking /\ InFlight = {} /\ tokens # <<>> /\ Export

Next ==
    \/ NextPort \/ NextBind \/ NextFrame \/ NextReject \/ NextHelper
    \/ NextLineage \/ NextIndex \/ NextAtomic \/ NextObject
    \/ NextVerify \/ NextState \/ NextConsent \/ NextChain \/ NextList
    \/ NextImport \/ NextManager

SpecVerify == Init /\ [][NextVerify]_vars

SpecState == Init /\ [][NextState]_vars

SpecConsent == Init /\ [][NextConsent]_vars

SpecChain == Init /\ [][NextChain]_vars

SpecList == Init /\ [][NextList]_vars

SpecImport == Init /\ [][NextImport]_vars

SpecManager == Init /\ [][NextManager]_vars

SpecPort == Init /\ [][NextPort]_vars

SpecBind == Init /\ [][NextBind]_vars

SpecFrame == Init /\ [][NextFrame]_vars

SpecReject == Init /\ [][NextReject]_vars

SpecHelper == Init /\ [][NextHelper]_vars

SpecLineage == Init /\ [][NextLineage]_vars

SpecIndex == Init /\ [][NextIndex]_vars

SpecAtomic == Init /\ [][NextAtomic]_vars

SpecObject == Init /\ [][NextObject]_vars

Spec == Init /\ [][Next]_vars

(* ======================= properties of the consent flow ================= *)
Terminal == {"ACCEPTED", "REJECTED"}

StoreUnchanged ==
    /\ heap = last.pre.heap
    /\ tokens = last.pre.tokens
    /\ proposals = last.pre.proposals

(* the step that made a call of op: it either threw or went on to createToken *)
Called(ops) == last.op \in ops /\ last.ev \in {"call", "threw"}

Returned(op) == last.op = op /\ last.ev = "returned"

(* the recipient the proposal named when the call was made *)
ExpectedToBefore(proposalId) ==
    Field(last.pre.heap[last.pre.proposals[proposalId]].provenance.what, "to")

(* C1: a call of accept or reject made when the proposal's token was already
   ACCEPTED or REJECTED leaves that state as it was. *)
C1_TerminalIsFinal ==
    (/\ last.op \in {"accept", "reject"} /\ last.ev = "returned"
     /\ last.arg.was \in Terminal)
    => Tok(last.arg.proposalId).state = last.arg.was

(* C2: an accept and a reject of the same proposal whose executions overlap
   never both return a success response with both response tokens, one
   ACCEPTED and one REJECTED, in the store under parentId p. *)
C2_NotBothWin ==
    ~ \E a \in responses, r \in responses :
        /\ a.res.accepted /\ ~r.res.accepted
        /\ a.res.proposalId = r.res.proposalId
        /\ a.cid \in r.conc
        /\ heap[a.res.token].parentId = a.res.proposalId
        /\ heap[r.res.token].parentId = a.res.proposalId
        /\ Tok(heap[a.res.token].tokenId).state = "ACCEPTED"
        /\ Tok(heap[r.res.token].tokenId).state = "REJECTED"

(* C3: a completed accept(p, acceptorDid) returns {proposalId: p, accepted:
   true, token: t}; t was added to the store by this call under a fresh id,
   has parentId p, actor acceptorDid and state ACCEPTED, and the proposal
   token p is ACCEPTED when accept returns. *)
C3_AcceptRoundTrip ==
    /\ last.op = "accept" /\ last.ev = "stored" =>
          LET t == heap[last.res.token]
          IN /\ t.tokenId \notin DOMAIN last.pre.tokens
             /\ Has(t.tokenId) /\ tokens[t.tokenId] = last.res.token
    /\ Returned("accept") =>
          LET t == heap[last.res.token]
              p == last.arg.proposalId
          IN /\ last.res.proposalId = p
             /\ last.res.accepted = TRUE
             /\ Has(t.tokenId) /\ tokens[t.tokenId] = last.res.token
             /\ t.tokenId # p
             /\ t.parentId = p
             /\ t.actor = last.arg.did
             /\ t.state = "ACCEPTED"
             /\ Tok(p).state = "ACCEPTED"

C3_Witness ==
    /\ Returned("accept")
    /\ last.arg.did = "bob"
    /\ Field(Tok(last.arg.proposalId).provenance.what, "to") = "bob"
    /\ last.pre.heap[last.pre.tokens[last.arg.proposalId]].state = "PROPOSED"

(* C4: a completed reject(p, rejectorDid, reason) returns {proposalId: p,
   accepted: false, token: t, reason} with the caller's reason; t was added by
   this call, has parentId p and actor rejectorDid, and both t and the proposal
   token p are REJECTED when reject returns. *)
C4_RejectPath ==
    /\ last.op = "reject" /\ last.ev = "stored" =>
          LET t == heap[last.res.token]
          IN /\ t.tokenId \notin DOMAIN last.pre.tokens
             /\ Has(t.tokenId) /\ tokens[t.tokenId] = last.res.token
    /\ Returned("reject") =>
          LET t == heap[last.res.token]
              p == last.arg.proposalId
          IN /\ last.res.proposalId = p
             /\ last.res.accepted = FALSE
             /\ last.res.reason = last.arg.reason
             /\ Has(t.tokenId) /\ tokens[t.tokenId] = last.res.token
             /\ t.tokenId # p
             /\ t.parentId = p
             /\ t.actor = last.arg.did
             /\ t.state = "REJECTED"
             /\ Tok(p).state = "REJECTED"

C4_Witness ==
    /\ Returned("reject")
    /\ last.arg.did = "bob"
    /\ last.res.reason = "no thanks"
    /\ last.pre.heap[last.pre.tokens[last.arg.proposalId]].state = "PROPOSED"

(* C5: accept(p, acceptorDid) on a proposal whose content.to is present and
   differs from acceptorDid throws the recipient error and leaves the store,
   every token's state and the proposal index as they were. *)
C5_WrongRecipient ==
    (/\ Called({"accept"})
     /\ last.arg.proposalId \in DOMAIN last.pre.proposals
     /\ ExpectedToBefore(last.arg.proposalId) # NoStr
     /\ ExpectedToBefore(last.arg.proposalId) # last.arg.did)
    => /\ last.ev = "threw"
       /\ last.res.error = "Acceptor does not match intended recipient"
       /\ StoreUnchanged

C5_Witness ==
    /\ last.op = "accept" /\ last.ev = "threw"
    /\ last.arg.did = "carol"
    /\ last.arg.proposalId \in DOMAIN proposals
    /\ Field(Tok(last.arg.proposalId).provenance.what, "to") = "bob"
    /\ Tok(last.arg.proposalId).state = "PROPOSED"

(* C6: accept and reject on an id that is not in the proposal index throw
   "Proposal not found" and leave the store and the index unchanged, also when
   the store holds a token of that id that propose did not register. *)
C6_UnknownProposal ==
    (/\ Called({"accept", "reject"})
     /\ last.arg.proposalId \notin DOMAIN last.pre.proposals)
    => /\ last.ev = "threw"
       /\ last.res.error = "Proposal not found"
       /\ StoreUnchanged

C6_Witness ==
    /\ last.op = "reject" /\ last.ev = "threw"
    /\ Has(last.arg.proposalId)
    /\ born[tokens[last.arg.proposalId]].op = "createToken"
    /\ last.arg.proposalId \notin DOMAIN proposals

(* C7: propose(from, to, action, purpose) adds exactly one token, a
   bilateral_consent token with content {action, from, to}, linked [from, to],
   actor from and no parentId; when propose returns that token is PROPOSED,
   the returned proposal wraps it, and the index has exactly one new entry,
   keyed by the token's id. *)
C7_Propose ==
    /\ last.op = "propose" /\ last.ev = "stored" =>
          LET t == heap[last.res.token]
          IN /\ t.tokenId \notin DOMAIN last.pre.tokens
             /\ DOMAIN tokens = DOMAIN last.pre.tokens \cup {t.tokenId}
             /\ \A id \in DOMAIN last.pre.tokens : tokens[id] = last.pre.tokens[id]
             /\ tokens[t.tokenId] = last.res.token
             /\ Len(heap) = Len(last.pre.heap) + 1
             /\ \A i \in 1..Len(last.pre.heap) : heap[i] = last.pre.heap[i]
             /\ proposals = last.pre.proposals
             /\ t.type = "bilateral_consent"
             /\ t.provenance.what =
                   [action |-> last.arg.action, from |-> last.arg.from,
                    to |-> last.arg.to]
             /\ t.provenance.with = {<<last.arg.from, last.arg.to>>}
             /\ t.actor = last.arg.from
             /\ t.parentId = NoId
    /\ Returned("propose") =>
          LET t == heap[last.res.token]
          IN /\ tokens = last.pre.tokens
             /\ Len(heap) = Len(last.pre.heap)
             /\ tokens[t.tokenId] = last.res.token
             /\ t.state = "PROPOSED"
             /\ t.tokenId \notin DOMAIN last.pre.proposals
             /\ DOMAIN proposals = DOMAIN last.pre.proposals \cup {t.tokenId}
             /\ \A id \in DOMAIN last.pre.proposals :
                   proposals[id] = last.pre.proposals[id]
             /\ proposals[t.tokenId] = last.res.token

C7_Witness ==
    /\ Returned("propose")
    /\ last.arg.to = "bob"
    /\ DOMAIN last.pre.proposals # {}
    /\ Cardinality(DOMAIN proposals) = Cardinality(DOMAIN last.pre.proposals) + 1

(* ===================== properties of create and verify ================== *)
BornOf(tokenId) == born[tokens[tokenId]]

Verified == Returned("verify") /\ Has(last.arg.tokenId)

Negative(expiresIn) == expiresIn # {} /\ TheNum(expiresIn) < 0

Positive(expiresIn) == expiresIn # {} /\ TheNum(expiresIn) > 0

(* C8: verify called on a token in the millisecond createToken stored it,
   where expiresIn was absent or positive and parentId absent or in the store,
   returns valid with signatureValid, notExpired and chainIntact; the score is
   the full sum (0.9999999999999999 as a double), or the sum without the 0.1
   of actorTrusted (0.8999999999999999) when the actor is 'anonymous'. *)
C8_VerifyAfterCreate ==
    (/\ Verified
     /\ BornOf(last.arg.tokenId).op = "createToken"
     /\ BornOf(last.arg.tokenId).at = last.arg.at
     /\ BornOf(last.arg.tokenId).parentPresent
     /\ (BornOf(last.arg.tokenId).params.expiresIn = {}
            \/ Positive(BornOf(last.arg.tokenId).params.expiresIn)))
    => /\ last.res.valid
       /\ last.res.details.signatureValid
       /\ last.res.details.notExpired
       /\ last.res.details.chainIntact
       /\ last.res.details.actorTrusted = (Tok(last.arg.tokenId).actor # Anonymous)
       /\ last.res.trustScore =
             IF Tok(last.arg.tokenId).actor = Anonymous THEN <<9, -10>> ELSE <<10, -10>>

C8_Witness ==
    /\ Verified
    /\ BornOf(last.arg.tokenId).at = last.arg.at
    /\ Positive(BornOf(last.arg.tokenId).params.expiresIn)
    /\ Tok(last.arg.tokenId).parentId \in DOMAIN tokens
    /\ Tok(last.arg.tokenId).actor = Anonymous
    /\ last.res.valid
    /\ last.res.trustScore = <<9, -10>>

(* C9: the digest covers neither state nor expiresAt nor metadata: verify
   reports signatureValid for every stored token whatever updateState, propose,
   accept and reject have done to it, and a copy of a token that differs only
   in those three fields gets the same signature check. *)
C9_DigestIgnoresState ==
    /\ Verified => last.res.details.signatureValid
    /\ \A i \in 1..Len(heap) :
          \A st \in TIBETState, e \in {{}, {0}}, m \in {{}, {[k |-> "v"]}} :
             (ExpectedSignature([heap[i] EXCEPT !.state = st, !.expiresAt = e,
                                                !.metadata = m]) = heap[i].signature)
             = (ExpectedSignature(heap[i]) = heap[i].signature)

C9_Witness ==
    /\ Verified
    /\ BornOf(last.arg.tokenId).op = "propose"
    /\ Tok(last.arg.tokenId).state = "REVOKED"
    /\ \E r \in responses : r.res.proposalId = last.arg.tokenId
    /\ last.res.details.signatureValid

(* C10 as stated: a token created with a negative expiresIn verifies with
   notExpired false, valid false and a trust score of at most 0.6. *)
C10_ExpiredAtMostSixTenths ==
    (Verified /\ Negative(BornOf(last.arg.tokenId).params.expiresIn))
    => /\ ~last.res.details.notExpired
       /\ ~last.res.valid
       /\ DoubleLeq(last.res.trustScore, <<6, 0>>)

(* C10 amended: such a token verifies with notExpired false, valid false and
   a trust score of at most 0.4 + 0.2 + 0.1 as the doubles add up,
   0.7000000000000001: only the 0.3 of notExpired is withheld. *)
C10_ExpiredAtMostSevenTenths ==
    (Verified /\ Negative(BornOf(last.arg.tokenId).params.expiresIn))
    => /\ ~last.res.details.notExpired
       /\ ~last.res.valid
       /\ DoubleLeq(last.res.trustScore, <<7, 10>>)

C10_Witness ==
    /\ Verified
    /\ Negative(BornOf(last.arg.tokenId).params.expiresIn)
    /\ last.res.details.signatureValid
    /\ last.res.details.chainIntact
    /\ last.res.details.actorTrusted
    /\ ~last.res.valid
    /\ last.res.trustScore = <<7, 10>>

(* C11 as stated: a token createToken stored has expiresAt = the time it was
   stored + expiresIn whenever an expiresIn was given, 0 included, and no
   expiresAt only when none was given; a token created with expiresIn = 0 is
   reported notExpired = false by every verify at a strictly later time. *)
C11_ExpiresInHonoured ==
    /\ \A id \in DOMAIN tokens :
          BornOf(id).op = "createToken" =>
             Tok(id).expiresAt =
                IF BornOf(id).params.expiresIn = {} THEN {}
                ELSE {BornOf(id).at + TheNum(BornOf(id).params.expiresIn)}
    /\ (/\ Verified
        /\ BornOf(last.arg.tokenId).params.expiresIn = {0}
        /\ last.arg.at > BornOf(last.arg.tokenId).at)
       => ~last.res.details.notExpired

(* C12: verify's chainIntact is true exactly when the token has no parentId
   or its parentId is in the store when verify answers; it looks one hop up
   only: a parentId that was never created gives chainIntact false and valid
   false, a present parent with a missing grandparent gives chainIntact true. *)
C12_ChainOneHop ==
    Verified =>
       LET tok == Tok(last.arg.tokenId)
       IN /\ last.res.details.chainIntact =
                (tok.parentId = NoId \/ tok.parentId \in DOMAIN tokens)
          /\ tok.parentId = DanglingId =>
                ~last.res.details.chainIntact /\ ~last.res.valid
          /\ (tok.parentId \in DOMAIN tokens /\ Tok(tok.parentId).parentId = DanglingId)
                => last.res.details.chainIntact

C12_Witness ==
    /\ Verified
    /\ Tok(last.arg.tokenId).parentId \in DOMAIN tokens
    /\ Tok(Tok(last.arg.tokenId).parentId).parentId = DanglingId
    /\ last.res.details.chainIntact
    /\ last.res.valid

(* the weight of a facet counted in tenths *)
Tenths(flag, n) == IF flag THEN n ELSE 0

AllFour(d) == d.signatureValid /\ d.notExpired /\ d.chainIntact /\ d.actorTrusted

(* C14 as stated: the trust score of a resolvable token is the sum of the
   weights of the facets that hold, counted in tenths (4, 3, 2, 1); it lies in
   [0, 1], it is 1.0 exactly when all four facets hold, and actorTrusted is
   reported true exactly when the actor is not 'anonymous'. *)
C14_ScoreInTenths ==
    Verified =>
       LET d == last.res.details
           score == last.res.trustScore
       IN /\ score = <<Tenths(d.signatureValid, 4) + Tenths(d.notExpired, 3)
                       + Tenths(d.chainIntact, 2) + Tenths(d.actorTrusted, 1), 0>>
          /\ DoubleLeq(Zero, score) /\ DoubleLeq(score, <<10, 0>>)
          /\ (score = <<10, 0>>) = AllFour(d)
          /\ d.actorTrusted = (Tok(last.arg.tokenId).actor # Anonymous)

(* C15: verify of an id that is not in the store returns, without throwing
   and with the store as it was, valid false, trust score 0, the four facets
   false and an error. *)
C15_VerifyNotFound ==
    (last.op = "verify" /\ last.ev \in {"call", "returned", "threw"}
       /\ last.arg.tokenId \notin DOMAIN last.pre.tokens)
    => /\ last.ev = "returned"
       /\ ~last.res.valid
       /\ last.res.trustScore = Zero
       /\ ~last.res.details.signatureValid
       /\ ~last.res.details.notExpired
       /\ ~last.res.details.chainIntact
       /\ ~last.res.details.actorTrusted
       /\ last.res.error # NoStr
       /\ StoreUnchanged

C15_Witness ==
    /\ Returned("verify")
    /\ last.arg.tokenId = DanglingId
    /\ DOMAIN tokens # {}
    /\ \E id \in DOMAIN tokens : Tok(id).parentId = DanglingId
    /\ last.res.error = "Token not found"

(* C13: for every resolvable token verify returns valid = signatureValid and
   notExpired and chainIntact, whatever actorTrusted is: an anonymous token
   with the other three facets true is valid, a token of a named actor with
   one of the three false is not. *)
C13_ValidIsThreeFacets ==
    Verified =>
       LET d == last.res.details
           three == d.signatureValid /\ d.notExpired /\ d.chainIntact
       IN /\ last.res.valid = three
          /\ (~d.actorTrusted /\ three) => last.res.valid
          /\ (d.actorTrusted /\ ~three) => ~last.res.valid

C13_Witness ==
    /\ Verified
    /\ ~last.res.details.signatureValid
    /\ last.res.details.notExpired
    /\ last.res.details.chainIntact
    /\ last.res.details.actorTrusted
    /\ ~last.res.valid

(* ================== properties of the synchronous readers =============== *)
TheChain == TheNum(last.res.chain)

(* where n hops up the parent links from id lead: NoId once they have left
   the store *)
RECURSIVE Climb(_, _)
Climb(id, n) ==
    IF id \notin DOMAIN tokens THEN NoId
    ELSE IF n = 0 THEN id
    ELSE Climb(Tok(id).parentId, n - 1)

(* no entry of the store is its own ancestor *)
Acyclic ==
    \A id \in DOMAIN tokens : Climb(id, Cardinality(DOMAIN tokens)) = NoId

(* C16: getChain of an id in the store returns the tokens from ancestor to
   descendant: the last one (current) is the token at id, every other one is
   followed by its child (the child's parentId is its id, and the store holds
   it under that id), the first one (origin) has no parentId or one that is
   not in the store, and length is the number of tokens; for A <- B <- C the
   result is [A, B, C].  In a store without a cycle of parent links the walk
   visits no entry twice, so it does return. *)
C16_ChainWalk ==
    /\ (Walking /\ Acyclic) => Len(walk.tokens) <= Cardinality(DOMAIN tokens)
    /\ (Returned("getChain") /\ last.arg.tokenId \in DOMAIN tokens) =>
       /\ last.res.chain # {}
       /\ LET refs == TheChain.tokens
              n == Len(refs)
          IN /\ n >= 1
             /\ TheChain.length = n
             /\ refs[n] = tokens[last.arg.tokenId]
             /\ TheChain.current = refs[n]
             /\ TheChain.origin = refs[1]
             /\ \A i \in 2..n :
                   /\ heap[refs[i]].parentId = heap[refs[i - 1]].tokenId
                   /\ heap[refs[i]].parentId \in DOMAIN tokens
                   /\ tokens[heap[refs[i]].parentId] = refs[i - 1]
             /\ \/ heap[refs[1]].parentId = NoId
                \/ heap[refs[1]].parentId \notin DOMAIN tokens

C16_Witness ==
    /\ Returned("getChain")
    /\ last.res.chain # {}
    /\ TheChain.length = 3
    /\ \A i \in 1..3 : born[TheChain.tokens[i]].op = "createToken"
    /\ heap[TheChain.origin].parentId = NoId
    /\ heap[TheChain.current].parentId = heap[TheChain.tokens[2]].tokenId
    /\ heap[TheChain.tokens[2]].parentId = heap[TheChain.origin].tokenId

(* C17 as stated: getChain stops in every store, stores with a cycle of
   parent links included.  A walk that stops visits no entry of the store
   twice, so its array never holds more tokens than the store has entries. *)
C17_WalkStops ==
    Walking => Len(walk.tokens) <= Cardinality(DOMAIN tokens)

(* C18: updateState(id, s) on a present id sets the state of that token to s
   and changes nothing else, and the same call made again changes nothing at
   all and returns the same; on an id that is not in the store every call
   returns the absent sentinel and changes nothing. *)
C18_UpdateStateIdempotent ==
    [][last'.op = "updateState" =>
          /\ tokens' = tokens
          /\ proposals' = proposals
          /\ IF last'.arg.tokenId \in DOMAIN tokens
             THEN /\ last'.res.found
                  /\ heap' = [heap EXCEPT
                                 ![tokens[last'.arg.tokenId]].state = last'.arg.state]
             ELSE /\ ~last'.res.found
                  /\ heap' = heap
          /\ (last.op = "updateState" /\ last.arg = last'.arg)
                => (heap' = heap /\ last'.res = last.res)]_vars

C18_Witness ==
    /\ last.op = "updateState"
    /\ last.res.found
    /\ Tok(last.arg.tokenId).state = "REVOKED"
    /\ last.arg.state = "REVOKED"
    /\ \E id \in DOMAIN tokens : id # last.arg.tokenId /\ Tok(id).state = "ACCEPTED"

(* C19: getToken, getChain and updateState called with an id that is not in
   the store return the absent sentinel, raise no error and leave the store
   as it was; updateState makes no entry for the id. *)
C19_SoftMiss ==
    [][(/\ last'.op \in {"getToken", "getChain", "updateState"}
        /\ last'.arg.tokenId \notin DOMAIN tokens)
       => /\ last'.ev \in {"returned", "sync"}
          /\ last'.op = "getToken" => last'.res.token = {}
          /\ last'.op = "getChain" => last'.res.chain = {}
          /\ last'.op = "updateState" => ~last'.res.found
          /\ heap' = heap
          /\ tokens' = tokens
          /\ proposals' = proposals]_vars

C19_Witness ==
    /\ last.op = "updateState"
    /\ ~last.res.found
    /\ last.arg.tokenId \notin DOMAIN tokens
    /\ \E id \in DOMAIN tokens : Tok(id).parentId = last.arg.tokenId

(* the ids of the store whose tokens agree with every field the filter gives *)
Matching(filter) ==
    {id \in DOMAIN tokens :
        \A key \in {"type", "state", "actor"} :
           Field(filter, key) # NoStr => Tok(id)[key] = filter[key]}

(* C20: listTokens(filter) returns exactly the tokens of the store that
   agree with every field the filter gives, each once; all tokens when no
   filter is given; and it leaves the store as it was. *)
C20_ListTokens ==
    Returned("listTokens") =>
       LET out == last.res.tokens
           want == Matching(last.arg.filter)
       IN /\ {out[i] : i \in 1..Len(out)} = {tokens[id] : id \in want}
          /\ Len(out) = Cardinality(want)
          /\ last.arg.filter = NoFilter => Len(out) = Cardinality(DOMAIN tokens)
          /\ StoreUnchanged

C20_Witness ==
    /\ Returned("listTokens")
    /\ DOMAIN last.arg.filter = {"type", "state", "actor"}
    /\ Len(last.res.tokens) = 1
    /\ Cardinality(DOMAIN tokens) = 2

(* ===================== properties of creation and import ================ *)
(* C27: createToken never throws, whatever parentId names; it adds exactly
   one entry, under an id the store did not have, whose token is CREATED and
   carries the parentId it was given; every other entry and every existing
   token stays as it was; a parentId that names no token shows only in
   verify's chainIntact = false. *)
C27_CreateAlwaysAdds ==
    /\ last.op = "createToken" => last.ev \in {"call", "returned"}
    /\ (last.op = "createToken" /\ last.ev = "call") => StoreUnchanged
    /\ Returned("createToken") =>
          LET t == heap[last.res.token]
          IN /\ t.tokenId \notin DOMAIN last.pre.tokens
             /\ DOMAIN tokens = DOMAIN last.pre.tokens \cup {t.tokenId}
             /\ tokens[t.tokenId] = last.res.token
             /\ \A id \in DOMAIN last.pre.tokens : tokens[id] = last.pre.tokens[id]
             /\ Len(heap) = Len(last.pre.heap) + 1
             /\ \A i \in 1..Len(last.pre.heap) : heap[i] = last.pre.heap[i]
             /\ t.state = "CREATED"
             /\ t.parentId = last.arg.parentId
    /\ (Verified /\ Tok(last.arg.tokenId).parentId = DanglingId)
          => ~last.res.details.chainIntact

C27_Witness ==
    /\ Returned("createToken")
    /\ last.arg.parentId = DanglingId
    /\ heap[last.res.token].parentId = DanglingId
    /\ DOMAIN last.pre.tokens # {}

NoActorGiven(tokenId) ==
    BornOf(tokenId).op = "createToken" /\ BornOf(tokenId).params.actor = NoStr

(* C28 as stated: a token of a createToken call that gave no actor has the
   actor 'anonymous', and verify reports actorTrusted = false for it. *)
C28_UnspecifiedIsAnonymous ==
    /\ \A id \in DOMAIN tokens : NoActorGiven(id) => Tok(id).actor = Anonymous
    /\ (Verified /\ NoActorGiven(last.arg.tokenId))
          => ~last.res.details.actorTrusted

(* C28 amended: such a token has the default actor of its TIBET instance,
   the actor given to the constructor or 'anonymous' when none was given, and
   verify reports actorTrusted = false exactly when that is 'anonymous'. *)
C28_UnspecifiedIsDefault ==
    /\ defaultActor \in {Anonymous, "alice"}
    /\ \A id \in DOMAIN tokens : NoActorGiven(id) => Tok(id).actor = defaultActor
    /\ (Verified /\ NoActorGiven(last.arg.tokenId))
          => last.res.details.actorTrusted = (defaultActor # Anonymous)

C28_Witness ==
    /\ Verified
    /\ NoActorGiven(last.arg.tokenId)
    /\ defaultActor = "alice"
    /\ Tok(last.arg.tokenId).actor = "alice"
    /\ last.res.details.actorTrusted

(* the fields a token's signature was computed over (the digest is injective) *)
SignedOver(tok) == tok.signature[2]

Covered == {"tokenId", "type", "actor", "provenance", "timestamp", "parentId"}

Unaltered(tok) ==
    /\ DOMAIN SignedOver(tok) =
          Covered \ (IF tok.parentId = NoId THEN {"parentId"} ELSE {})
    /\ \A k \in DOMAIN SignedOver(tok) : SignedOver(tok)[k] = tok[k]

(* C30: verify reports signatureValid = true for a token whose covered fields
   are the ones its signature was computed over, and signatureValid = false
   and valid = false for a token with a covered field that differs. *)
C30_TamperEvident ==
    Verified =>
       /\ last.res.details.signatureValid = Unaltered(heap[last.arg.ref])
       /\ ~Unaltered(heap[last.arg.ref]) => ~last.res.valid

C30_Witness ==
    /\ Verified
    /\ born[last.arg.ref].op = "import"
    /\ ~Unaltered(heap[last.arg.ref])
    /\ heap[last.arg.ref].expiresAt = {}
    /\ heap[last.arg.ref].parentId = NoId
    /\ ~last.res.details.signatureValid
    /\ ~last.res.valid

(* ====================== properties of the manager ======================= *)
RespondedTo(proposalId) == {r \in responses : r.res.proposalId = proposalId}

(* C22 as stated: getConsentChain(p) of a proposal that has been accepted or
   rejected returns a chain that holds the proposal token and the response
   token. *)
C22_ConsentChainHasResponse ==
    (/\ Returned("getChain")
     /\ last.arg.tokenId \in DOMAIN proposals
     /\ RespondedTo(last.arg.tokenId) # {})
    => /\ last.res.chain # {}
       /\ \E i \in 1..TheChain.length :
             TheChain.tokens[i] = proposals[last.arg.tokenId]
       /\ \E r \in RespondedTo(last.arg.tokenId), i \in 1..TheChain.length :
             TheChain.tokens[i] = r.res.token

ConsentStates == {"PROPOSED", "ACCEPTED", "REJECTED"}

(* C26: with propose, accept and reject only, no token is ever REVOKED or
   EXPIRED, and whenever no call is in progress every token without parentId
   is a proposal in state PROPOSED, ACCEPTED or REJECTED and every token with
   a parentId is a response in state ACCEPTED or REJECTED. *)
C26_OnlyConsentStates ==
    /\ \A id \in DOMAIN tokens : Tok(id).state \notin {"REVOKED", "EXPIRED"}
    /\ InFlight = {} =>
          \A id \in DOMAIN tokens :
             IF Tok(id).parentId = NoId
             THEN /\ id \in DOMAIN proposals
                  /\ proposals[id] = tokens[id]
                  /\ Tok(id).state \in ConsentStates
             ELSE /\ id \notin DOMAIN proposals
                  /\ \E r \in responses : r.res.token = tokens[id]
                  /\ Tok(id).parentId \in DOMAIN proposals
                  /\ Tok(id).state \in Terminal

C26_Witness ==
    /\ InFlight = {}
    /\ Cardinality(DOMAIN tokens) = 3
    /\ \E id \in DOMAIN tokens : Tok(id).parentId # NoId /\ Tok(id).state = "ACCEPTED"
    /\ \E id \in DOMAIN tokens : Tok(id).parentId # NoId /\ Tok(id).state = "REJECTED"

(* C29: listProposals(s) returns exactly the proposals of the index whose
   token is in state s in the token store, each once; every proposal when no
   state is given; never a response token; and it leaves the index and the
   store as they were. *)
C29_ListProposals ==
    Returned("listProposals") =>
       LET out == last.res.proposals
           want == {id \in DOMAIN proposals :
                       last.arg.state # NoStr => Tok(id).state = last.arg.state}
       IN /\ {out[i] : i \in 1..Len(out)} = {proposals[id] : id \in want}
          /\ Len(out) = Cardinality(want)
          /\ last.arg.state = NoStr => Len(out) = Cardinality(DOMAIN proposals)
          /\ \A i \in 1..Len(out) :
                born[out[i]].op = "propose" /\ heap[out[i]].parentId = NoId
          /\ StoreUnchanged

C29_Witness ==
    /\ Returned("listProposals")
    /\ last.arg.state = "ACCEPTED"
    /\ Len(last.res.proposals) = 1
    /\ Cardinality(DOMAIN proposals) = 2
    /\ Cardinality(DOMAIN tokens) = 3


(* ------------------------- export and import ---------------------------- *)
(* the four facets verify reports for a token held in a store of these ids *)
VerifyFacets(tok, ids, at) ==
    [signatureValid |-> Unaltered(tok),
     notExpired |-> tok.expiresAt = {} \/ TheNum(tok.expiresAt) > at,
     chainIntact |-> tok.parentId = NoId \/ tok.parentId \in ids,
     actorTrusted |-> tok.actor # "anonymous"]

FromExport == Returned("import") /\ last.arg.from = "export"

(* C21: export leaves the store as it was and its document holds every id with
   the state its token has; importing that document into a store T binds every
   id of the exported store S to a token with the fields the token of S had at
   the export, keeps every id that only T has bound to the object it was bound
   to, changes no object that existed, and when T is empty the tokens get from
   verify the facets they got in S. *)
C21_RoundTrip ==
    /\ Returned("export") =>
          /\ StoreUnchanged
          /\ DOMAIN TheNum(exported).json = DOMAIN tokens
          /\ \A id \in DOMAIN tokens : TheNum(exported).json[id].state = StateOf(id)
    /\ FromExport =>
          LET S == TheNum(exported)
              T == last.pre.tokens
          IN /\ DOMAIN tokens = DOMAIN T \cup DOMAIN S.of
             /\ \A id \in DOMAIN S.of :
                   /\ heap[tokens[id]].state = S.json[id].state
                   /\ \A k \in TokenKeys \ {"state"} :
                         heap[tokens[id]][k] = heap[S.of[id]][k]
             /\ \A id \in DOMAIN T \ DOMAIN S.of : tokens[id] = T[id]
             /\ \A i \in 1..Len(last.pre.heap) : heap[i] = last.pre.heap[i]
             /\ T = <<>> =>
                   \A id \in DOMAIN S.of :
                      VerifyFacets(heap[tokens[id]], DOMAIN tokens, now)
                         = VerifyFacets(heap[S.of[id]], DOMAIN S.of, now)
    /\ Verified =>
          last.res.details
             = VerifyFacets(heap[last.arg.ref], DOMAIN tokens, last.arg.at)

(* an export of two tokens, one revoked and one expired and chained to the
   other, loaded into an empty store *)
C21_Witness ==
    /\ FromExport
    /\ last.pre.tokens = <<>>
    /\ \E id \in DOMAIN tokens : StateOf(id) = "REVOKED"
    /\ \E id \in DOMAIN tokens :
          /\ heap[tokens[id]].expiresAt # {}
          /\ heap[tokens[id]].parentId \in DOMAIN tokens

(* C23, as stated: every key of the store maps to a token with that tokenId,
   and no step rebinds an id to a token with other digest-covered fields. *)
C23_KeyIsTokenIdNeverRebound ==
    /\ [](\A id \in DOMAIN tokens : heap[tokens[id]].tokenId = id)
    /\ [][\A id \in DOMAIN tokens \cap DOMAIN tokens' :
             \A k \in Covered : heap'[tokens'[id]][k] = heap[tokens[id]][k]]_vars

(* C23, amended: every step other than an import binds a new key only to a
   token with that tokenId and keeps every bound id on its object with its
   digest-covered fields; an import binds the ids of its document to new
   objects, whatever their tokenId, and keeps every other binding. *)
C23_BoundOnceBarImport ==
    [][/\ last'.op # "import" =>
             \A id \in DOMAIN tokens' :
                IF id \in DOMAIN tokens
                THEN /\ tokens'[id] = tokens[id]
                     /\ \A k \in Covered :
                           heap'[tokens'[id]][k] = heap[tokens[id]][k]
                ELSE heap'[tokens'[id]].tokenId = id
       /\ last'.op = "import" =>
             /\ DOMAIN tokens' = DOMAIN tokens \cup last'.arg.ids
             /\ \A id \in last'.arg.ids : tokens'[id] > Len(heap)
             /\ \A id \in DOMAIN tokens \ last'.arg.ids : tokens'[id] = tokens[id]
      ]_vars

(* a created token's id rebound by import to a token with another tokenId, and
   a token created in that store afterwards *)
C23_Witness ==
    /\ \E id \in DOMAIN tokens :
          /\ heap[tokens[id]].tokenId # id
          /\ \E i \in 1..Len(heap) : heap[i].tokenId = id /\ born[i].op # "import"
    /\ \E id \in DOMAIN tokens :
          /\ heap[tokens[id]].tokenId = id
          /\ \E j \in 1..(tokens[id] - 1) : born[j].op = "import"


(* ------------------------------ frames ---------------------------------- *)
(* C24: no step of updateState, verify, getChain, listTokens, export, propose,
   accept or reject changes any field but state of a token that exists, nor
   the token an id is bound to. *)
C24_OnlyStateChanges ==
    [][/\ \A i \in 1..Len(heap) :
             \A k \in TokenKeys \ {"state"} : heap'[i][k] = heap[i][k]
       /\ \A id \in DOMAIN tokens : id \in DOMAIN tokens' /\ tokens'[id] = tokens[id]
      ]_vars

(* accept has just moved a proposal that carries an expiry from PROPOSED to
   ACCEPTED, after the store was exported *)
C24_Witness ==
    /\ Returned("accept")
    /\ exported # {}
    /\ LET p == last.arg.proposalId
       IN /\ last.pre.heap[tokens[p]].state = "PROPOSED"
          /\ heap[tokens[p]].state = "ACCEPTED"
          /\ heap[tokens[p]].expiresAt # {}

(* C25: a step of verify, of verifyConsent or of the clock leaves every token,
   the store and the proposal index as they were; no step changes an
   expiresAt; and a token's state becomes EXPIRED only by updateState called
   with EXPIRED. *)
C25_NoAutomaticExpiry ==
    [][/\ last'.op \in {"verify", "clock"} =>
             heap' = heap /\ tokens' = tokens /\ proposals' = proposals
       /\ \A i \in 1..Len(heap) :
             /\ heap'[i].expiresAt = heap[i].expiresAt
             /\ (heap[i].state # "EXPIRED" /\ heap'[i].state = "EXPIRED") =>
                   /\ last'.op = "updateState"
                   /\ last'.arg.state = "EXPIRED"
                   /\ last'.arg.tokenId \in DOMAIN tokens
                   /\ tokens[last'.arg.tokenId] = i
      ]_vars

(* verify has reported a token past its expiry, and the token is still
   ACCEPTED *)
C25_Witness ==
    /\ Verified
    /\ ~last.res.details.notExpired
    /\ heap[last.arg.ref].expiresAt # {}
    /\ TheNum(heap[last.arg.ref].expiresAt) <= now
    /\ heap[last.arg.ref].state = "ACCEPTED"


(* ------------------------ who may answer a proposal ---------------------- *)
(* C31: reject of a proposal of the index never throws, whoever the rejector
   is, and when it returns the response is a rejection by that rejector and
   the proposal is REJECTED. *)
C31_RejectByAnyone ==
    /\ (Called({"reject"}) /\ last.arg.proposalId \in DOMAIN last.pre.proposals)
          => last.ev = "call"
    /\ Returned("reject") =>
          /\ last.res.accepted = FALSE
          /\ heap[last.res.token].actor = last.arg.did
          /\ heap[last.res.token].state = "REJECTED"
          /\ heap[proposals[last.arg.proposalId]].state = "REJECTED"

(* a stranger has rejected a proposal made by alice to bob *)
C31_Witness ==
    /\ Returned("reject")
    /\ last.arg.did = "mallory"
    /\ LET p == heap[proposals[last.arg.proposalId]]
       IN /\ Field(p.provenance.what, "to") = "bob"
          /\ p.actor = "alice"
          /\ p.state = "REJECTED"


(* C32: every call made through the closures of createBilateralConsent is
   accept or reject of the helper's one proposal on the one manager, in the
   name of consent.to, reject with the caller's reason; no such call throws;
   what returns is what accept and reject return; and the store holds nothing
   but the tokens of propose, accept and reject. *)
C32_ClosuresAreManagerCalls ==
    /\ last.op \in {"accept", "reject"} =>
          \E h \in Closures :
             /\ last.arg.proposalId = heap[h.proposal].tokenId
             /\ DOMAIN proposals = {last.arg.proposalId}
             /\ proposals[last.arg.proposalId] = h.proposal
             /\ last.arg.did = h.consent.to
             /\ last.ev # "threw"
    /\ Returned("accept") =>
          /\ last.res.accepted
          /\ heap[last.res.token].parentId = last.arg.proposalId
          /\ heap[last.res.token].state = "ACCEPTED"
          /\ heap[proposals[last.arg.proposalId]].state = "ACCEPTED"
    /\ Returned("reject") =>
          /\ ~last.res.accepted
          /\ last.res.reason = last.arg.reason
          /\ heap[last.res.token].parentId = last.arg.proposalId
          /\ heap[last.res.token].state = "REJECTED"
          /\ heap[proposals[last.arg.proposalId]].state = "REJECTED"
    /\ \A i \in 1..Len(born) : born[i].op \in {"propose", "accept", "reject"}
    /\ Cardinality({i \in 1..Len(born) : born[i].op = "propose"}) <= 1

(* the accept closure of a consent from alice to bob has returned *)
C32_Witness ==
    /\ Returned("accept")
    /\ \E h \in Closures : h.consent.to = "bob" /\ h.consent.from = "alice"
    /\ heap[last.res.token].actor = "bob"


(* the recipient a proposal of the index names, NoStr when it names none *)
RecipientOf(proposalId) == Field(heap[proposals[proposalId]].provenance.what, "to")

(* C33: every ACCEPTED token whose parent is a proposal of the index that
   names a recipient has that recipient as its actor, and every accept of
   such a proposal that got past its check was made by the recipient. *)
C33_OnlyRecipientAccepts ==
    /\ \A i \in 1..Len(heap) :
          (/\ heap[i].state = "ACCEPTED"
           /\ heap[i].parentId \in DOMAIN proposals
           /\ TruthyStr(RecipientOf(heap[i].parentId)))
          => heap[i].actor = RecipientOf(heap[i].parentId)
    /\ \A c \in InFlight :
          (calls[c].op = "accept" /\ TruthyStr(RecipientOf(calls[c].arg.proposalId)))
          => calls[c].arg.did = RecipientOf(calls[c].arg.proposalId)

(* bob has accepted a proposal made to him that carol tried to accept and
   then rejected *)
C33_Witness ==
    /\ Returned("accept")
    /\ RecipientOf(last.arg.proposalId) = "bob"
    /\ heap[last.res.token].actor = "bob"
    /\ \E i \in 1..Len(heap) :
          /\ heap[i].parentId = last.arg.proposalId
          /\ heap[i].actor = "carol"
          /\ heap[i].state = "REJECTED"


(* ------------------------------ lineage --------------------------------- *)
(* the response tokens accept and reject have returned *)
Answers == {r.res.token : r \in responses}

(* the proposal object an answer was made for *)
ProposalOf(i) ==
    CHOOSE j \in 1..Len(heap) :
       born[j].op = "propose" /\ heap[j].tokenId = heap[i].parentId

(* C34, as stated: whenever verify is given the id of a returned response
   token it reports chainIntact, and getChain of that id is the proposal
   followed by the response token. *)
C34_LineageForever ==
    \A i \in Answers :
       /\ (Verified /\ last.arg.tokenId = heap[i].tokenId)
             => last.res.details.chainIntact
       /\ (Returned("getChain") /\ last.arg.tokenId = heap[i].tokenId) =>
             /\ last.res.chain # {}
             /\ TheChain.tokens = <<ProposalOf(i), i>>
             /\ TheChain.length = 2
             /\ TheChain.origin = ProposalOf(i)
             /\ TheChain.current = i

(* C34, amended: the same for as long as the ids of the response token and of
   its proposal are bound to those two tokens; verify of the response token
   itself reports chainIntact in every state. *)
C34_LineageWhileBound ==
    \A i \in Answers :
       /\ (Verified /\ last.arg.ref = i) => last.res.details.chainIntact
       /\ (/\ Returned("getChain")
           /\ last.arg.tokenId = heap[i].tokenId
           /\ tokens[heap[i].tokenId] = i
           /\ tokens[heap[i].parentId] = ProposalOf(i)) =>
             /\ last.res.chain # {}
             /\ TheChain.tokens = <<ProposalOf(i), i>>
             /\ TheChain.length = 2
             /\ TheChain.origin = ProposalOf(i)
             /\ TheChain.current = i

(* the chain of an acceptance read after the proposal was revoked and a token
   was imported under a new id *)
C34_Witness ==
    /\ Returned("getChain")
    /\ last.res.chain # {}
    /\ TheChain.length = 2
    /\ TheChain.current \in Answers
    /\ heap[TheChain.current].state = "ACCEPTED"
    /\ heap[TheChain.origin].state = "REVOKED"
    /\ \E k \in DOMAIN tokens : born[tokens[k]].op = "import"


(* ------------------------ proposal index and store ---------------------- *)
(* C35, as stated: the token a proposal of the index wraps has the state of
   the store's token of the same id, and listProposals(s) returns the
   proposals whose store token is in state s. *)
C35_IndexAgreesWithStore ==
    /\ \A id \in DOMAIN proposals :
          Has(id) /\ heap[proposals[id]].state = heap[tokens[id]].state
    /\ (Returned("listProposals") /\ last.arg.state # NoStr) =>
          {heap[last.res.proposals[i]].tokenId :
               i \in 1..Len(last.res.proposals)}
             = {id \in DOMAIN proposals : heap[tokens[id]].state = last.arg.state}


(* ------------------------------ atomicity ------------------------------- *)
(* the tokens propose, accept and reject have put in the store *)
ConsentTokens == {i \in 1..Len(heap) : born[i].op \in {"propose", "accept", "reject"}}

Answered(i) == heap[i].parentId # NoId /\ heap[i].state \in {"ACCEPTED", "REJECTED"}

(* C36, as stated: listTokens never returns a token of propose, accept or
   reject that is still CREATED, nor an answered response token whose proposal
   is still PROPOSED. *)
C36_WritesAreAtomic ==
    Returned("listTokens") =>
       \A n \in 1..Len(last.res.tokens) :
          LET i == last.res.tokens[n]
          IN i \in ConsentTokens =>
                /\ heap[i].state # "CREATED"
                /\ Answered(i) => heap[tokens[heap[i].parentId]].state # "PROPOSED"

(* C36, amended: the writes that follow createToken are made in one step, so
   no state has an answered response token under a proposal that is still
   PROPOSED, and the index holds no proposal that is still CREATED; but a
   token of propose, accept or reject is in the store in state CREATED from
   the step createToken stores it to the step its call resumes, and only
   then. *)
C36_AtomicAfterTheAwait ==
    /\ \A i \in ConsentTokens :
          /\ Answered(i) => heap[tokens[heap[i].parentId]].state # "PROPOSED"
          /\ heap[i].state = "CREATED" <=>
                \E c \in InFlight : calls[c].pc = "stored" /\ calls[c].ref = i
    /\ \A id \in DOMAIN proposals : heap[proposals[id]].state # "CREATED"

(* listTokens, called between the step that stored an acceptance and the
   resumption of accept, returns the acceptance in state CREATED under a
   proposal that is still PROPOSED *)
C36_Witness ==
    /\ Returned("listTokens")
    /\ \E n \in 1..Len(last.res.tokens) :
          LET i == last.res.tokens[n]
          IN /\ born[i].op = "accept"
             /\ heap[i].state = "CREATED"
             /\ heap[tokens[heap[i].parentId]].state = "PROPOSED"


(* ------------------------- verify and the state ------------------------- *)
(* what verify returns, computed without reading the token's state *)
StateBlindVerdict(tok, ids, at) ==
    LET d == VerifyFacets(tok, ids, at)
    IN [valid |-> d.signatureValid /\ d.notExpired /\ d.chainIntact,
        tokenId |-> tok.tokenId,
        trustScore |-> TrustScore(d.signatureValid, d.notExpired, d.chainIntact,
                                  d.actorTrusted),
        details |-> d,
        error |-> NoStr]

(* C37: the whole result of verify is a function of the token's fields other
   than state, of the ids in the store and of the time of the call: valid, the
   trust score and the four facets are what they would be in any other state
   of the token. *)
C37_VerifyIgnoresState ==
    Verified =>
       \A st \in TIBETState :
          last.res = StateBlindVerdict([heap[last.arg.ref] EXCEPT !.state = st],
                                       DOMAIN tokens, last.arg.at)

(* a rejected response token and a revoked proposal that verify as valid *)
C37_Witness ==
    /\ Verified
    /\ last.res.valid
    /\ heap[last.arg.ref].state = "REVOKED"
    /\ born[last.arg.ref].op = "propose"
    /\ \E i \in 1..Len(heap) : heap[i].parentId = last.arg.tokenId
                                  /\ heap[i].state = "REJECTED"


(* ------------------------ accept and the expiry ------------------------- *)
(* the proposal's expiry had passed at time t *)
Elapsed(proposalId, t) ==
    LET p == heap[proposals[proposalId]]
    IN p.expiresAt # {} /\ TheNum(p.expiresAt) <= t

(* C38: accept and reject of a proposal whose expiry has passed do not throw;
   the response token of an accept made after the expiry carries no expiresAt
   and the proposal is ACCEPTED when accept returns; verify reports such a
   proposal notExpired = false and valid = false, and reports an acceptance
   valid = true with notExpired = true. *)
C38_AcceptIgnoresExpiry ==
    /\ (/\ Called({"accept", "reject"})
        /\ last.arg.did = "bob"
        /\ last.arg.proposalId \in DOMAIN proposals
        /\ Elapsed(last.arg.proposalId, now)) => last.ev = "call"
    /\ (/\ Returned("accept")
        /\ Elapsed(last.arg.proposalId, heap[last.res.token].timestamp)) =>
          /\ last.res.accepted
          /\ heap[last.res.token].expiresAt = {}
          /\ heap[proposals[last.arg.proposalId]].state = "ACCEPTED"
    /\ (/\ Verified
        /\ last.arg.tokenId \in DOMAIN proposals
        /\ Elapsed(last.arg.tokenId, last.arg.at)) =>
          ~last.res.details.notExpired /\ ~last.res.valid
    /\ (Verified /\ born[last.arg.ref].op = "accept") =>
          last.res.details.notExpired /\ last.res.valid

(* bob's accept, called after the proposal's expiry had passed, has returned *)
C38_Witness ==
    /\ Returned("accept")
    /\ last.arg.did = "bob"
    /\ Elapsed(last.arg.proposalId, heap[last.res.token].timestamp)
    /\ last.arg.was = "PROPOSED"
    /\ heap[proposals[last.arg.proposalId]].state = "ACCEPTED"


(* ------------------------ verify of a token object ---------------------- *)
ByObject == "token" \in DOMAIN last.arg

InStore(ref) == \E id \in DOMAIN tokens : tokens[id] = ref

(* C39: verify given a token object returns the verdict of that object,
   whether or not the store holds it: three facets from the object's own
   fields and chainIntact from the store; a parentless, unaltered, unexpired
   object is valid in a store that does not hold it; and verify given the id
   of a stored token returns the verdict of the object stored under it, which
   is what verify returns when given that object. *)
C39_VerifyJudgesTheObject ==
    /\ (Returned("verify") /\ ByObject) =>
          /\ last.res = StateBlindVerdict(heap[last.arg.ref], DOMAIN tokens, last.arg.at)
          /\ (/\ heap[last.arg.ref].parentId = NoId
              /\ Unaltered(heap[last.arg.ref])
              /\ heap[last.arg.ref].expiresAt = {}) => last.res.valid
    /\ (Verified /\ ~ByObject) =>
          /\ last.pre.tokens[last.arg.tokenId] = last.arg.ref
          /\ last.res = StateBlindVerdict(heap[last.arg.ref], DOMAIN tokens, last.arg.at)

(* a parentless token created in a store that was left behind verifies valid
   in the new store, which holds another token *)
C39_Witness ==
    /\ Returned("verify")
    /\ ByObject
    /\ born[last.arg.ref].op = "createToken"
    /\ ~InStore(last.arg.ref)
    /\ tokens # <<>>
    /\ heap[last.arg.ref].parentId = NoId
    /\ last.res.valid

====
